---------------------------- MODULE Spec2Model ----------------------------
(***************************************************************************)
(* Local inference core of goose: the process-global InferenceRuntime, its *)
(* model slots, LocalInferenceProvider::stream with its blocking worker,   *)
(* the native and the emulated tool paths and their parsers.               *)
(*                                                                         *)
(* Specifications:                                                         *)
(*   Spec         runtime handles, model slots, stream() load-and-evict    *)
(*                and the workers' slot locking, for several providers     *)
(***************************************************************************)
EXTENDS Integers, Sequences, FiniteSets, TLC

(***************************************************************************)
(* Bounds of the model.                                                    *)
(***************************************************************************)
\* providers (each with at most one worker in flight)
NumProviders == 2
\* model ids known to the registry
NumModels == 2
\* InferenceRuntime instances created over the life of the process
MaxRuntimes == 2

Providers == 1..NumProviders
Models == 1..NumModels
Gens == 1..MaxRuntimes

VARIABLES
    \* ---- providers/local_inference.rs: RUNTIME, InferenceRuntime ----
    runtimeLock,    \* holder of the RUNTIME mutex guard (0: free)
    poisoned,       \* the RUNTIME mutex is poisoned (a holder panicked)
    weak,           \* the runtime the global Weak points to (0: Weak::new())
    rtPhase,        \* per runtime: unborn, live, dying, models_dropped, freed
    backendInit,    \* the backend library's "initialized" flag
    slotInMap,      \* per runtime: the model ids its `models` map holds
    slotLoaded,     \* per runtime and model id: the slot holds Some(LoadedModel)
    slotLock,       \* per runtime and model id: holder of the slot mutex (0: free)
    \* ---- LocalInferenceProvider ----
    ppc,            \* per provider: where it is
    pgen,           \* per provider: the runtime its handles refer to
    pmodel,         \* per provider: model_config.model_name given to from_env
    pHoldRt,        \* per provider: holds its Arc<InferenceRuntime>
    pHoldSlot,      \* per provider: holds its ModelSlot
    starget,        \* per provider: model_config.model_name of the stream() call
    sothers,        \* per provider: slots of other_model_slots() still to visit
    sevicted,       \* per provider: loaded slots its stream() call has emptied so far
    \* ---- the spawn_blocking worker of a stream() call ----
    wpc,            \* per provider: where its worker is
    wgen,           \* per provider: the runtime the worker's clones refer to
    wmodel,         \* per provider: the model id of the worker's slot
    wHoldRt,        \* the worker's closure still owns `runtime`
    wHoldSlot       \* the worker's closure still owns `model_arc`

rvars == <<runtimeLock, poisoned, weak, rtPhase, backendInit, slotInMap,
           slotLoaded, slotLock, ppc, pgen, pmodel, pHoldRt, pHoldSlot,
           starget, sothers, sevicted, wpc, wgen, wmodel, wHoldRt, wHoldSlot>>

\* identity of the worker of provider p as a lock holder
WorkerId(p) == NumProviders + p

(***************************************************************************)
(* Reference counts (Arc): derived from who holds a clone.                 *)
(***************************************************************************)
StrongCount(g) ==
    Cardinality({p \in Providers : pHoldRt[p] /\ pgen[p] = g})
  + Cardinality({p \in Providers : wHoldRt[p] /\ wgen[p] = g})

\* clones of the slot's Arc held outside the runtime's map
SlotHandles(g, m) ==
    Cardinality({p \in Providers : pHoldSlot[p] /\ pgen[p] = g /\ pmodel[p] = m})
  + Cardinality({p \in Providers : wHoldSlot[p] /\ wgen[p] = g /\ wmodel[p] = m})

BackendLive(g) == rtPhase[g] \in {"live", "dying", "models_dropped"}

InitRuntime ==
    /\ runtimeLock = 0
    /\ poisoned = FALSE
    /\ weak = 0
    /\ rtPhase = [g \in Gens |-> "unborn"]
    /\ backendInit = FALSE
    /\ slotInMap = [g \in Gens |-> {}]
    /\ slotLoaded = [g \in Gens |-> [m \in Models |-> FALSE]]
    /\ slotLock = [g \in Gens |-> [m \in Models |-> 0]]
    /\ ppc = [p \in Providers |-> "absent"]
    /\ pgen = [p \in Providers |-> 0]
    /\ pmodel = [p \in Providers |-> 0]
    /\ pHoldRt = [p \in Providers |-> FALSE]
    /\ pHoldSlot = [p \in Providers |-> FALSE]
    /\ starget = [p \in Providers |-> 0]
    /\ sothers = [p \in Providers |-> {}]
    /\ sevicted = [p \in Providers |-> {}]
    /\ wpc = [p \in Providers |-> "none"]
    /\ wgen = [p \in Providers |-> 0]
    /\ wmodel = [p \in Providers |-> 0]
    /\ wHoldRt = [p \in Providers |-> FALSE]
    /\ wHoldSlot = [p \in Providers |-> FALSE]

(***************************************************************************)
(* InferenceRuntime::get_or_init, called by LocalInferenceProvider::from_env*)
(***************************************************************************)
\* RUNTIME.lock().expect(..); guard.upgrade()
GetOrInitLock(p) ==
    /\ ppc[p] = "absent"
    /\ runtimeLock = 0
    /\ IF poisoned
         THEN /\ ppc' = [ppc EXCEPT ![p] = "panic_poisoned"]
              /\ UNCHANGED <<runtimeLock, pgen, pHoldRt>>
         ELSE IF weak # 0 /\ StrongCount(weak) > 0
           THEN /\ pgen' = [pgen EXCEPT ![p] = weak]
                /\ pHoldRt' = [pHoldRt EXCEPT ![p] = TRUE]
                /\ ppc' = [ppc EXCEPT ![p] = "have_rt"]
                /\ UNCHANGED runtimeLock
           ELSE /\ runtimeLock' = p
                /\ ppc' = [ppc EXCEPT ![p] = "init_backend"]
                /\ UNCHANGED <<pgen, pHoldRt>>
    /\ UNCHANGED <<poisoned, weak, rtPhase, backendInit, slotInMap, slotLoaded,
                   slotLock, pmodel, pHoldSlot, starget, sothers, sevicted,
                   wpc, wgen, wmodel, wHoldRt, wHoldSlot>>

\* LlamaBackend::init() answers BackendAlreadyInitialized while the library's
\* flag is set; the flag is cleared when a LlamaBackend is dropped.
BackendInitFails == backendInit

\* LlamaBackend::init(), Arc::new(Self {..}), *guard = Arc::downgrade(..)
GetOrInitBackend(p) ==
    /\ ppc[p] = "init_backend"
    /\ IF BackendInitFails
         THEN \* unreachable!(): the thread panics holding the guard
              /\ ppc' = [ppc EXCEPT ![p] = "panic_already_initialized"]
              /\ poisoned' = TRUE
              /\ runtimeLock' = 0
              /\ UNCHANGED <<weak, rtPhase, backendInit, pgen, pHoldRt>>
         ELSE /\ \E g \in Gens :
                   /\ rtPhase[g] = "unborn"
                   /\ \A h \in Gens : h < g => rtPhase[h] # "unborn"
                   /\ rtPhase' = [rtPhase EXCEPT ![g] = "live"]
                   /\ weak' = g
                   /\ pgen' = [pgen EXCEPT ![p] = g]
              /\ backendInit' = TRUE
              /\ pHoldRt' = [pHoldRt EXCEPT ![p] = TRUE]
              /\ runtimeLock' = 0
              /\ ppc' = [ppc EXCEPT ![p] = "have_rt"]
              /\ UNCHANGED poisoned
    /\ UNCHANGED <<slotInMap, slotLoaded, slotLock, pmodel, pHoldSlot, starget,
                   sothers, sevicted, wpc, wgen, wmodel, wHoldRt, wHoldSlot>>

\* runtime.get_or_create_model_slot(&model.model_name) in from_env
GetOrCreateModelSlot(p, m) ==
    /\ ppc[p] = "have_rt"
    /\ slotInMap' = [slotInMap EXCEPT ![pgen[p]] = @ \cup {m}]
    /\ pmodel' = [pmodel EXCEPT ![p] = m]
    /\ pHoldSlot' = [pHoldSlot EXCEPT ![p] = TRUE]
    /\ ppc' = [ppc EXCEPT ![p] = "idle"]
    /\ UNCHANGED <<runtimeLock, poisoned, weak, rtPhase, backendInit, slotLoaded,
                   slotLock, pgen, pHoldRt, starget, sothers, sevicted,
                   wpc, wgen, wmodel, wHoldRt, wHoldSlot>>

(***************************************************************************)
(* Drop of InferenceRuntime (the last Arc went away): its fields in        *)
(* declaration order, `models` and then `backend`.                         *)
(***************************************************************************)
\* the map's clones of the slots go; a slot nobody else holds drops its model
ModelsFieldDropped(g) ==
    /\ slotInMap' = [slotInMap EXCEPT ![g] = {}]
    /\ slotLoaded' = [slotLoaded EXCEPT ![g] =
          [m \in Models |-> IF m \in slotInMap[g] /\ SlotHandles(g, m) = 0
                              THEN FALSE ELSE slotLoaded[g][m]]]

\* LlamaBackend::drop: llama_backend_free(), the library's flag is cleared
BackendFieldDropped(g) ==
    /\ rtPhase' = [rtPhase EXCEPT ![g] = "freed"]
    /\ backendInit' = FALSE

\* a holder's clone of a slot goes; the last one drops the LoadedModel
SlotHandleDropped(g, m) ==
    slotLoaded' = [slotLoaded EXCEPT ![g][m] =
          IF m \notin slotInMap[g] /\ SlotHandles(g, m) = 1 THEN FALSE ELSE @]

(***************************************************************************)
(* LocalInferenceProvider::stream: ensure the model is loaded, unloading   *)
(* the other models first; then spawn the blocking worker.                 *)
(***************************************************************************)
\* mutant of OtherModelSlots: the filter keeps nothing, so no slot is evicted
OtherModelSlots_None(g, keep) == {}

\* self.model.lock().await; is_none(); self.runtime.other_model_slots(name)
OtherModelSlots(g, keep) == {m \in slotInMap[g] : m # keep}

StreamLock(p, m) ==
    /\ ppc[p] = "idle"
    /\ wpc[p] = "none"
    /\ slotLock[pgen[p]][pmodel[p]] = 0
    /\ starget' = [starget EXCEPT ![p] = m]
    /\ sevicted' = [sevicted EXCEPT ![p] = {}]
    /\ IF slotLoaded[pgen[p]][pmodel[p]]
         THEN /\ ppc' = [ppc EXCEPT ![p] = "s_spawn"]
              /\ UNCHANGED <<slotLock, sothers>>
         ELSE /\ slotLock' = [slotLock EXCEPT ![pgen[p]][pmodel[p]] = p]
              /\ sothers' = [sothers EXCEPT ![p] = OtherModelSlots(pgen[p], m)]
              /\ ppc' = [ppc EXCEPT ![p] = "s_evict"]
    /\ UNCHANGED <<runtimeLock, poisoned, weak, rtPhase, backendInit, slotInMap,
                   slotLoaded, pgen, pmodel, pHoldRt, pHoldSlot,
                   wpc, wgen, wmodel, wHoldRt, wHoldSlot>>

\* mutant of EvictMayLock: the slot is emptied without taking its mutex
EvictMayLock_NoLock(g, m) == TRUE

\* the other slot's mutex must be free for slot.lock().await to return
EvictMayLock(g, m) == slotLock[g][m] = 0

\* let mut other = slot.lock().await; if other.is_some() { *other = None; }
StreamEvict(p, m) ==
    /\ ppc[p] = "s_evict"
    /\ m \in sothers[p]
    /\ EvictMayLock(pgen[p], m)
    /\ slotLoaded' = [slotLoaded EXCEPT ![pgen[p]][m] = FALSE]
    /\ sothers' = [sothers EXCEPT ![p] = @ \ {m}]
    /\ sevicted' = [sevicted EXCEPT ![p] =
                        IF slotLoaded[pgen[p]][m] THEN @ \cup {m} ELSE @]
    /\ UNCHANGED <<runtimeLock, poisoned, weak, rtPhase, backendInit, slotInMap,
                   slotLock, ppc, pgen, pmodel, pHoldRt, pHoldSlot, starget,
                   wpc, wgen, wmodel, wHoldRt, wHoldSlot>>

\* load_model_sync returned Ok: *model_lock = Some(loaded); the guard goes
StreamLoadOk(p) ==
    /\ ppc[p] = "s_evict"
    /\ sothers[p] = {}
    /\ slotLoaded' = [slotLoaded EXCEPT ![pgen[p]][pmodel[p]] = TRUE]
    /\ slotLock' = [slotLock EXCEPT ![pgen[p]][pmodel[p]] = 0]
    /\ ppc' = [ppc EXCEPT ![p] = "s_spawn"]
    /\ sevicted' = [sevicted EXCEPT ![p] = {}]
    /\ UNCHANGED <<runtimeLock, poisoned, weak, rtPhase, backendInit, slotInMap,
                   pgen, pmodel, pHoldRt, pHoldSlot, starget, sothers,
                   wpc, wgen, wmodel, wHoldRt, wHoldSlot>>

\* load_model_sync returned Err (unknown model, file missing, load failed):
\* stream() returns the error, the guard goes, the slot stays None
StreamLoadErr(p) ==
    /\ ppc[p] = "s_evict"
    /\ sothers[p] = {}
    /\ slotLock' = [slotLock EXCEPT ![pgen[p]][pmodel[p]] = 0]
    /\ ppc' = [ppc EXCEPT ![p] = "idle"]
    /\ starget' = [starget EXCEPT ![p] = 0]
    /\ sevicted' = [sevicted EXCEPT ![p] = {}]
    /\ UNCHANGED <<runtimeLock, poisoned, weak, rtPhase, backendInit, slotInMap,
                   slotLoaded, pgen, pmodel, pHoldRt, pHoldSlot, sothers,
                   wpc, wgen, wmodel, wHoldRt, wHoldSlot>>

\* tokio::task::spawn_blocking(move || ..) with clones of self.model and
\* self.runtime; stream() returns the receiving end
StreamSpawn(p) ==
    /\ ppc[p] = "s_spawn"
    /\ wpc' = [wpc EXCEPT ![p] = "w_lock"]
    /\ wgen' = [wgen EXCEPT ![p] = pgen[p]]
    /\ wmodel' = [wmodel EXCEPT ![p] = pmodel[p]]
    /\ wHoldRt' = [wHoldRt EXCEPT ![p] = TRUE]
    /\ wHoldSlot' = [wHoldSlot EXCEPT ![p] = TRUE]
    /\ ppc' = [ppc EXCEPT ![p] = "idle"]
    /\ starget' = [starget EXCEPT ![p] = 0]
    /\ UNCHANGED <<runtimeLock, poisoned, weak, rtPhase, backendInit, slotInMap,
                   slotLoaded, slotLock, pgen, pmodel, pHoldRt, pHoldSlot, sothers, sevicted>>

\* a message could not be built or RequestLog::start failed: stream() returns Err
StreamSetupErr(p) ==
    /\ ppc[p] = "s_spawn"
    /\ ppc' = [ppc EXCEPT ![p] = "idle"]
    /\ starget' = [starget EXCEPT ![p] = 0]
    /\ UNCHANGED <<runtimeLock, poisoned, weak, rtPhase, backendInit, slotInMap,
                   slotLoaded, slotLock, pgen, pmodel, pHoldRt, pHoldSlot, sothers, sevicted,
                   wpc, wgen, wmodel, wHoldRt, wHoldSlot>>

(***************************************************************************)
(* The spawn_blocking worker of stream().                                  *)
(***************************************************************************)
\* the slot's mutex must be free for model_arc.blocking_lock() to return
WorkerMayLock(g, m) == slotLock[g][m] = 0

\* let model_guard = model_arc.blocking_lock(); match model_guard.as_ref()
WorkerLock(p) ==
    /\ wpc[p] = "w_lock"
    /\ WorkerMayLock(wgen[p], wmodel[p])
    /\ slotLock' = [slotLock EXCEPT ![wgen[p]][wmodel[p]] = WorkerId(p)]
    /\ wpc' = [wpc EXCEPT ![p] =
                 IF slotLoaded[wgen[p]][wmodel[p]] THEN "w_generate"
                                                   ELSE "w_not_loaded"]
    /\ UNCHANGED <<runtimeLock, poisoned, weak, rtPhase, backendInit, slotInMap,
                   slotLoaded, ppc, pgen, pmodel, pHoldRt, pHoldSlot, starget,
                   sothers, sevicted, wgen, wmodel, wHoldRt, wHoldSlot>>

\* generate_with_emulated_tools / generate_with_native_tools ran to its end
\* (final usage sent) or failed (log.error, the error item sent)
WorkerGenerate(p) ==
    /\ wpc[p] = "w_generate"
    /\ wpc' = [wpc EXCEPT ![p] = "w_finished"]
    /\ UNCHANGED <<runtimeLock, poisoned, weak, rtPhase, backendInit, slotInMap,
                   slotLoaded, slotLock, ppc, pgen, pmodel, pHoldRt, pHoldSlot,
                   starget, sothers, sevicted, wgen, wmodel, wHoldRt, wHoldSlot>>

\* the closure returns (after send_err!("Model not loaded") or after the
\* generation): model_guard is dropped
WorkerReturn(p) ==
    /\ wpc[p] \in {"w_finished", "w_not_loaded"}
    /\ slotLock' = [slotLock EXCEPT ![wgen[p]][wmodel[p]] = 0]
    /\ wpc' = [wpc EXCEPT ![p] = "w_drop"]
    /\ UNCHANGED <<runtimeLock, poisoned, weak, rtPhase, backendInit, slotInMap,
                   slotLoaded, ppc, pgen, pmodel, pHoldRt, pHoldSlot, starget,
                   sothers, sevicted, wgen, wmodel, wHoldRt, wHoldSlot>>

\* where the worker goes once it holds neither capture
WorkerAfterDrop(p, holdsRt, holdsSlot) ==
    IF holdsRt \/ holdsSlot
      THEN /\ wpc' = [wpc EXCEPT ![p] = "w_drop"]
           /\ UNCHANGED <<wgen, wmodel>>
      ELSE /\ wpc' = [wpc EXCEPT ![p] = "none"]
           /\ wgen' = [wgen EXCEPT ![p] = 0]
           /\ wmodel' = [wmodel EXCEPT ![p] = 0]

\* the closure's captured `runtime` is dropped (the captures' drop order is
\* not fixed by the source: either may go first)
WorkerDropRuntime(p) ==
    /\ wpc[p] = "w_drop"
    /\ wHoldRt[p]
    /\ wHoldRt' = [wHoldRt EXCEPT ![p] = FALSE]
    /\ IF StrongCount(wgen[p]) = 1
         THEN /\ rtPhase' = [rtPhase EXCEPT ![wgen[p]] = "dying"]
              /\ wpc' = [wpc EXCEPT ![p] = "w_drop_models"]
              /\ UNCHANGED <<wgen, wmodel>>
         ELSE /\ WorkerAfterDrop(p, FALSE, wHoldSlot[p])
              /\ UNCHANGED rtPhase
    /\ UNCHANGED <<runtimeLock, poisoned, weak, backendInit, slotInMap,
                   slotLoaded, slotLock, ppc, pgen, pmodel, pHoldRt, pHoldSlot,
                   starget, sothers, sevicted, wHoldSlot>>

WorkerDropModelsField(p) ==
    /\ wpc[p] = "w_drop_models"
    /\ ModelsFieldDropped(wgen[p])
    /\ rtPhase' = [rtPhase EXCEPT ![wgen[p]] = "models_dropped"]
    /\ wpc' = [wpc EXCEPT ![p] = "w_drop_backend"]
    /\ UNCHANGED <<runtimeLock, poisoned, weak, backendInit, slotLock, ppc,
                   pgen, pmodel, pHoldRt, pHoldSlot, starget, sothers, sevicted,
                   wgen, wmodel, wHoldRt, wHoldSlot>>

WorkerDropBackendField(p) ==
    /\ wpc[p] = "w_drop_backend"
    /\ BackendFieldDropped(wgen[p])
    /\ WorkerAfterDrop(p, FALSE, wHoldSlot[p])
    /\ UNCHANGED <<runtimeLock, poisoned, weak, slotInMap, slotLoaded, slotLock,
                   ppc, pgen, pmodel, pHoldRt, pHoldSlot, starget, sothers, sevicted,
                   wHoldRt, wHoldSlot>>

\* the closure's captured `model_arc` is dropped
WorkerDropSlot(p) ==
    /\ wpc[p] = "w_drop"
    /\ wHoldSlot[p]
    /\ wHoldSlot' = [wHoldSlot EXCEPT ![p] = FALSE]
    /\ SlotHandleDropped(wgen[p], wmodel[p])
    /\ WorkerAfterDrop(p, wHoldRt[p], FALSE)
    /\ UNCHANGED <<runtimeLock, poisoned, weak, rtPhase, backendInit, slotInMap,
                   slotLock, ppc, pgen, pmodel, pHoldRt, pHoldSlot, starget,
                   sothers, sevicted, wHoldRt>>

(***************************************************************************)
(* Drop of a LocalInferenceProvider: its fields in declaration order,      *)
(* `runtime` and then `model`.                                             *)
(***************************************************************************)
ProviderDropRuntime(p) ==
    /\ ppc[p] = "idle"
    /\ pHoldRt' = [pHoldRt EXCEPT ![p] = FALSE]
    /\ IF StrongCount(pgen[p]) = 1
         THEN /\ rtPhase' = [rtPhase EXCEPT ![pgen[p]] = "dying"]
              /\ ppc' = [ppc EXCEPT ![p] = "p_drop_models"]
         ELSE /\ ppc' = [ppc EXCEPT ![p] = "p_drop_slot"]
              /\ UNCHANGED rtPhase
    /\ UNCHANGED <<runtimeLock, poisoned, weak, backendInit, slotInMap,
                   slotLoaded, slotLock, pgen, pmodel, pHoldSlot, starget,
                   sothers, sevicted, wpc, wgen, wmodel, wHoldRt, wHoldSlot>>

ProviderDropModelsField(p) ==
    /\ ppc[p] = "p_drop_models"
    /\ ModelsFieldDropped(pgen[p])
    /\ rtPhase' = [rtPhase EXCEPT ![pgen[p]] = "models_dropped"]
    /\ ppc' = [ppc EXCEPT ![p] = "p_drop_backend"]
    /\ UNCHANGED <<runtimeLock, poisoned, weak, backendInit, slotLock,
                   pgen, pmodel, pHoldRt, pHoldSlot, starget, sothers, sevicted,
                   wpc, wgen, wmodel, wHoldRt, wHoldSlot>>

ProviderDropBackendField(p) ==
    /\ ppc[p] = "p_drop_backend"
    /\ BackendFieldDropped(pgen[p])
    /\ ppc' = [ppc EXCEPT ![p] = "p_drop_slot"]
    /\ UNCHANGED <<runtimeLock, poisoned, weak, slotInMap, slotLoaded, slotLock,
                   pgen, pmodel, pHoldRt, pHoldSlot, starget, sothers, sevicted,
                   wpc, wgen, wmodel, wHoldRt, wHoldSlot>>

ProviderDropSlot(p) ==
    /\ ppc[p] = "p_drop_slot"
    /\ pHoldSlot' = [pHoldSlot EXCEPT ![p] = FALSE]
    /\ SlotHandleDropped(pgen[p], pmodel[p])
    /\ ppc' = [ppc EXCEPT ![p] = "absent"]
    /\ pgen' = [pgen EXCEPT ![p] = 0]
    /\ pmodel' = [pmodel EXCEPT ![p] = 0]
    /\ UNCHANGED <<runtimeLock, poisoned, weak, rtPhase, backendInit, slotInMap,
                   slotLock, pHoldRt, starget, sothers, sevicted,
                   wpc, wgen, wmodel, wHoldRt, wHoldSlot>>

(***************************************************************************)
(* Text.  A string is the sequence of its bytes (all text here is ASCII,   *)
(* so bytes and chars coincide); an offset is a number of bytes, as in     *)
(* Rust, and the slice text[a..b] is SubSeq(text, a + 1, b).               *)
(***************************************************************************)
NL == "\n"
QUOTE == "\""

Min(a, b) == IF a <= b THEN a ELSE b
Max(a, b) == IF a >= b THEN a ELSE b

\* F applied to the value of v, the value being computed once
With(v, F(_)) == CHOOSE y \in {F(x) : x \in {v}} : TRUE

\* char::is_whitespace on the bytes that occur
IsWhitespace(c) == c \in {" ", NL}

\* text[a..b]
Slice(text, a, b) == SubSeq(text, a + 1, b)

\* str::starts_with, str::ends_with
StartsWith(text, pat) ==
    Len(pat) <= Len(text) /\ SubSeq(text, 1, Len(pat)) = pat
EndsWith(text, pat) ==
    Len(pat) <= Len(text)
        /\ SubSeq(text, Len(text) - Len(pat) + 1, Len(text)) = pat

\* str::find: the byte offset of the first occurrence, -1 for None
Find(text, pat) ==
    LET hits == {i \in 0..(Len(text) - Len(pat)) :
                    Slice(text, i, i + Len(pat)) = pat}
    IN  IF hits = {} THEN -1
        ELSE CHOOSE i \in hits : \A j \in hits : i <= j

\* str::split_once: None, or the text before and after the first occurrence
SplitOnce(text, pat) ==
    LET i == Find(text, pat)
    IN  IF i < 0 THEN [found |-> FALSE, before |-> <<>>, after |-> <<>>]
        ELSE [found |-> TRUE,
              before |-> Slice(text, 0, i),
              after |-> Slice(text, i + Len(pat), Len(text))]

\* str::trim_end, str::trim_start, str::trim
TrimEnd(text) ==
    LET n == CHOOSE i \in 0..Len(text) :
                /\ i = 0 \/ ~IsWhitespace(text[i])
                /\ \A j \in (i + 1)..Len(text) : IsWhitespace(text[j])
    IN  SubSeq(text, 1, n)
TrimStart(text) ==
    LET n == CHOOSE i \in 1..(Len(text) + 1) :
                /\ i = Len(text) + 1 \/ ~IsWhitespace(text[i])
                /\ \A j \in 1..(i - 1) : IsWhitespace(text[j])
    IN  SubSeq(text, n, Len(text))
Trim(text) == TrimEnd(TrimStart(text))

\* str::trim_end_matches(pat): strips the pattern as often as it ends the text
RECURSIVE TrimEndMatches(_, _)
TrimEndMatches(text, pat) ==
    IF Len(pat) > 0 /\ EndsWith(text, pat)
    THEN TrimEndMatches(SubSeq(text, 1, Len(text) - Len(pat)), pat)
    ELSE text

\* the concatenation of a sequence of strings
RECURSIVE Concat(_)
Concat(ss) == IF ss = <<>> THEN <<>> ELSE Head(ss) \o Concat(Tail(ss))

(***************************************************************************)
(* serde_json::from_str, on the bytes that occur: objects, arrays and      *)
(* strings.  No text of the model holds a digit, a minus sign, a backslash *)
(* or the letters of true, false and null, so every other JSON value is a  *)
(* parse error here exactly as it is for serde_json.                       *)
(* A value is [k |-> "s", v |-> bytes], [k |-> "a", v |-> <<values>>] or   *)
(* [k |-> "o", v |-> <<members>>], a member being <<key bytes, value>>.    *)
(***************************************************************************)
JsonFail == [ok |-> FALSE, pos |-> 0, val |-> [k |-> "none", v |-> <<>>]]

JsonAt(s, i) == IF i <= Len(s) THEN s[i] ELSE "EOF"

\* skip whitespace from index i on
RECURSIVE JsonSkipWs(_, _)
JsonSkipWs(s, i) ==
    IF i <= Len(s) /\ IsWhitespace(s[i]) THEN JsonSkipWs(s, i + 1) ELSE i

\* a string starting at the quote at index i; a raw control character
\* (the newline) inside a string is an error
JsonString(s, i) ==
    IF JsonAt(s, i) # QUOTE THEN JsonFail
    ELSE LET closing == {j \in (i + 1)..Len(s) : s[j] = QUOTE}
         IN  IF closing = {} THEN JsonFail
             ELSE LET j == CHOOSE x \in closing : \A y \in closing : x <= y
                      body == SubSeq(s, i + 1, j - 1)
                  IN  IF \E x \in 1..Len(body) : body[x] = NL THEN JsonFail
                      ELSE [ok |-> TRUE, pos |-> j + 1,
                            val |-> [k |-> "s", v |-> body]]

RECURSIVE JsonValue(_, _)
RECURSIVE JsonElements(_, _, _)
RECURSIVE JsonMembers(_, _, _)

\* the rest of an array after its element e: a comma and the next
\* element, or the closing bracket
JsonAfterElement(s, e, acc) ==
    With(JsonSkipWs(s, e.pos), LAMBDA j :
        IF JsonAt(s, j) = ","
        THEN JsonElements(s, JsonSkipWs(s, j + 1), Append(acc, e.val))
        ELSE IF JsonAt(s, j) = "]"
        THEN [ok |-> TRUE, pos |-> j + 1,
              val |-> [k |-> "a", v |-> Append(acc, e.val)]]
        ELSE JsonFail)

\* the elements of an array after '[', the first at index i
JsonElements(s, i, acc) ==
    With(JsonValue(s, i), LAMBDA e :
        IF ~e.ok THEN JsonFail ELSE JsonAfterElement(s, e, acc))

\* the rest of an object after the member key: e, a comma and the next
\* member, or the closing brace
JsonAfterMember(s, key, e, acc) ==
    With(JsonSkipWs(s, e.pos), LAMBDA j :
        IF JsonAt(s, j) = ","
        THEN JsonMembers(s, JsonSkipWs(s, j + 1),
                         Append(acc, <<key.val.v, e.val>>))
        ELSE IF JsonAt(s, j) = "}"
        THEN [ok |-> TRUE, pos |-> j + 1,
              val |-> [k |-> "o", v |-> Append(acc, <<key.val.v, e.val>>)]]
        ELSE JsonFail)

\* the members of an object after '{', the first key at index i
JsonMembers(s, i, acc) ==
    With(JsonString(s, i), LAMBDA key :
        IF ~key.ok THEN JsonFail
        ELSE With(JsonSkipWs(s, key.pos), LAMBDA c :
            IF JsonAt(s, c) # ":" THEN JsonFail
            ELSE With(JsonValue(s, JsonSkipWs(s, c + 1)), LAMBDA e :
                IF ~e.ok THEN JsonFail
                ELSE JsonAfterMember(s, key, e, acc))))

\* a value starting at index i (whitespace already skipped)
JsonValue(s, i) ==
    IF JsonAt(s, i) = QUOTE THEN JsonString(s, i)
    ELSE IF JsonAt(s, i) = "["
    THEN With(JsonSkipWs(s, i + 1), LAMBDA j :
            IF JsonAt(s, j) = "]"
            THEN [ok |-> TRUE, pos |-> j + 1, val |-> [k |-> "a", v |-> <<>>]]
            ELSE JsonElements(s, j, <<>>))
    ELSE IF JsonAt(s, i) = "{"
    THEN With(JsonSkipWs(s, i + 1), LAMBDA j :
            IF JsonAt(s, j) = "}"
            THEN [ok |-> TRUE, pos |-> j + 1, val |-> [k |-> "o", v |-> <<>>]]
            ELSE JsonMembers(s, j, <<>>))
    ELSE JsonFail

\* serde_json::from_str::<Value>: one value, then only whitespace
JsonFromStr(s) ==
    With(JsonValue(s, JsonSkipWs(s, 1)), LAMBDA e :
        IF e.ok /\ JsonSkipWs(s, e.pos) = Len(s) + 1 THEN e ELSE JsonFail)

\* Value::get(key): the member of an object (the last one of that key, as
\* a later insert replaces an earlier one), none for any other value
JsonGet(val, key) ==
    IF val.k # "o" THEN [k |-> "none", v |-> <<>>]
    ELSE LET hits == {i \in 1..Len(val.v) : val.v[i][1] = key}
         IN  IF hits = {} THEN [k |-> "none", v |-> <<>>]
             ELSE val.v[CHOOSE i \in hits : \A j \in hits : j <= i][2]

\* Value::as_str().unwrap_or("")
JsonStrOrEmpty(val) == IF val.k = "s" THEN val.v ELSE <<>>

(***************************************************************************)
(* tool_parsing.rs                                                         *)
(***************************************************************************)
TAG_OPEN == <<"<", "t", "o", "o", "l", "_", "c", "a", "l", "l", ">">>
TAG_CLOSE == <<"<", "/", "t", "o", "o", "l", "_", "c", "a", "l", "l", ">">>
KEY_TOOL_CALLS == <<"t", "o", "o", "l", "_", "c", "a", "l", "l", "s">>
KEY_NAME == <<"n", "a", "m", "e">>
KEY_FUNCTION == <<"f", "u", "n", "c", "t", "i", "o", "n">>
XML_FUNCTION == <<"<", "f", "u", "n", "c", "t", "i", "o", "n", "=">>
XML_ARG_KEY == <<"<", "a", "r", "g", "_", "k", "e", "y", ">">>
XML_ARG_KEY_CLOSE == <<"<", "/", "a", "r", "g", "_", "k", "e", "y", ">">>
XML_ARG_VALUE == <<"<", "a", "r", "g", "_", "v", "a", "l", "u", "e", ">">>
XML_ARG_VALUE_CLOSE == <<"<", "/", "a", "r", "g", "_", "v", "a", "l", "u", "e", ">">>
XML_PARAMETER == <<"<", "p", "a", "r", "a", "m", "e", "t", "e", "r", "=">>
XML_PARAMETER_CLOSE == <<"<", "/", "p", "a", "r", "a", "m", "e", "t", "e", "r", ">">>

\* one round of the backward scan of split_content_and_tool_calls at offset
\* i; scan is <<depth, json_start>>, json_start being -1 for None
BraceStep(bytes, i, scan) ==
    IF bytes[i + 1] = "}" THEN <<scan[1] + 1, -1>>
    ELSE IF bytes[i + 1] = "{"
    THEN <<scan[1] - 1, IF scan[1] - 1 = 0 THEN i ELSE -1>>
    ELSE scan

\* the backward scan `for i in (0..bytes.len()).rev()` over the offsets
\* lo..hi-1, from hi - 1 down: the upper half of the range, then the lower
\* half; it breaks as soon as json_start is set
RECURSIVE MatchingBrace(_, _, _, _)
MatchingBrace(bytes, lo, hi, scan) ==
    IF scan[2] >= 0 \/ hi <= lo THEN scan
    ELSE IF hi - lo = 1 THEN BraceStep(bytes, lo, scan)
    ELSE With(MatchingBrace(bytes, (lo + hi) \div 2, hi, scan), LAMBDA upper :
           MatchingBrace(bytes, lo, (lo + hi) \div 2, upper))

\* split_content_and_tool_calls: (content, Some(json)) or (text, None);
\* start is the offset of the JSON block in the text
split_content_and_tool_calls(text) ==
    LET none == [content |-> text, found |-> FALSE, json |-> <<>>, start |-> 0]
    IN  With(TrimEnd(text), LAMBDA trimmed :
          IF ~EndsWith(trimmed, <<"}">>) THEN none
          ELSE With(MatchingBrace(trimmed, 0, Len(trimmed), <<0, -1>>)[2], LAMBDA start :
            IF start < 0 THEN none
            ELSE With(Slice(trimmed, start, Len(trimmed)), LAMBDA json_str :
              With(JsonFromStr(json_str), LAMBDA parsed :
                IF ~parsed.ok THEN none
                ELSE IF JsonGet(parsed.val, KEY_TOOL_CALLS).k # "a" THEN none
                ELSE [content |-> TrimEnd(Slice(trimmed, 0, start)),
                      found |-> TRUE,
                      json |-> json_str,
                      start |-> start]))))

\* one round of the forward scan of safe_stream_end at offset i; scan is
\* <<depth, safe_end>>
SafeEndStep(bytes, i, scan) ==
    IF bytes[i + 1] = "{"
    THEN <<scan[1] + 1, IF scan[1] = 0 THEN i ELSE scan[2]>>
    ELSE IF bytes[i + 1] = "}"
    THEN <<scan[1] - 1, IF scan[1] - 1 = 0 THEN i + 1 ELSE scan[2]>>
    ELSE <<scan[1], IF scan[1] = 0 THEN i + 1 ELSE scan[2]>>

\* the forward scan `for (i, &b) in bytes.iter().enumerate()` over the
\* offsets lo..hi-1: the lower half of the range, then the upper half
RECURSIVE ScanSafeEnd(_, _, _, _)
ScanSafeEnd(bytes, lo, hi, scan) ==
    IF hi <= lo THEN scan
    ELSE IF hi - lo = 1 THEN SafeEndStep(bytes, lo, scan)
    ELSE With(ScanSafeEnd(bytes, lo, (lo + hi) \div 2, scan), LAMBDA lower :
           ScanSafeEnd(bytes, (lo + hi) \div 2, hi, lower))

\* safe_stream_end without the hold on a partial tag at the end of the text
safe_stream_end_NoTailHold(text) ==
    LET found == Find(text, TAG_OPEN)
        xml_hold == IF found < 0 THEN Len(text) ELSE found
    IN  Min(ScanSafeEnd(text, 0, Len(text), <<0, Len(text)>>)[2], xml_hold)

\* safe_stream_end
safe_stream_end(text) ==
    LET found == Find(text, TAG_OPEN)
        xml_hold == IF found < 0 THEN Len(text) ELSE found
        check_len == Min(Len(TAG_OPEN), Len(text))
    IN  With(ScanSafeEnd(text, 0, Len(text), <<0, Len(text)>>)[2], LAMBDA safe_end :
          LET starts == {s \in Max(0, safe_end - check_len)..(safe_end - 1) :
                            StartsWith(TAG_OPEN, Slice(text, s, safe_end))}
              tail_hold == IF starts = {} THEN safe_end
                           ELSE CHOOSE s \in starts : \A t \in starts : s <= t
          IN  Min(Min(safe_end, xml_hold), tail_hold))

\* the name of one element of the "tool_calls" array, as
\* extract_tool_call_messages reads it ("" when there is none)
ToolCallName(tc) ==
    IF JsonGet(tc, KEY_FUNCTION).k # "none"
    THEN JsonStrOrEmpty(JsonGet(JsonGet(tc, KEY_FUNCTION), KEY_NAME))
    ELSE JsonStrOrEmpty(JsonGet(tc, KEY_NAME))

\* extract_tool_call_messages: the tool names of the messages it builds
extract_tool_call_messages(tool_calls_json) ==
    With(JsonFromStr(tool_calls_json), LAMBDA parsed :
      With(JsonGet(parsed.val, KEY_TOOL_CALLS), LAMBDA arr :
        IF ~parsed.ok \/ arr.k # "a" THEN <<>>
        ELSE SelectSeq([i \in 1..Len(arr.v) |-> ToolCallName(arr.v[i])],
                       LAMBDA n : n # <<>>)))

\* serde_json::from_str(value).unwrap_or_else(|_| Value::String(value))
JsonOrString(value) ==
    With(JsonFromStr(value), LAMBDA parsed :
        IF parsed.ok THEN parsed.val ELSE [k |-> "s", v |-> value])

\* serde_json::Map::insert on a map kept as a set of <<key, value>> pairs:
\* a later insert replaces the value of the key
MapInsert(args, key, value) == {kv \in args : kv[1] # key} \cup {<<key, value>>}

\* the while loop of parse_xml_function_format over the parameters
RECURSIVE FunctionParameters(_, _)
FunctionParameters(rest, args) ==
    With(SplitOnce(rest, XML_PARAMETER), LAMBDA param :
      IF ~param.found THEN args
      ELSE With(SplitOnce(param.after, <<">">>), LAMBDA name :
        IF ~name.found THEN args
        ELSE With(SplitOnce(name.after, XML_PARAMETER_CLOSE), LAMBDA close :
          LET value == Trim(IF close.found THEN close.before ELSE name.after)
              after_value == IF close.found THEN close.after ELSE <<>>
          IN  FunctionParameters(after_value,
                  MapInsert(args, Trim(name.before), JsonOrString(value))))))

\* parse_xml_function_format: Some((name, args)) as a one-element
\* sequence, None as <<>>
parse_xml_function_format(block) ==
    With(SplitOnce(block, XML_FUNCTION), LAMBDA f :
      IF ~f.found THEN <<>>
      ELSE With(SplitOnce(f.after, <<">">>), LAMBDA n :
        IF ~n.found THEN <<>>
        ELSE <<[name |-> Trim(n.before),
                args |-> FunctionParameters(n.after, {})]>>))

\* the while loop of parse_xml_arg_key_value_format over the pairs
RECURSIVE ArgKeyValues(_, _)
ArgKeyValues(rest, args) ==
    With(SplitOnce(rest, XML_ARG_KEY), LAMBDA open :
      IF ~open.found THEN args
      ELSE With(SplitOnce(open.after, XML_ARG_KEY_CLOSE), LAMBDA key :
        IF ~key.found THEN args
        ELSE With(SplitOnce(key.after, XML_ARG_VALUE), LAMBDA val :
          IF ~val.found THEN args
          ELSE With(SplitOnce(val.after, XML_ARG_VALUE_CLOSE), LAMBDA close :
            LET value == Trim(IF close.found THEN close.before ELSE val.after)
                after_val_close == IF close.found THEN close.after ELSE <<>>
            IN  ArgKeyValues(after_val_close,
                    MapInsert(args, Trim(key.before), JsonOrString(value)))))))

\* parse_xml_arg_key_value_format: Some((name, args)) as a one-element
\* sequence, None as <<>>
parse_xml_arg_key_value_format(block) ==
    LET found == Find(block, XML_ARG_KEY)
        func_name_end == IF found < 0 THEN Len(block) ELSE found
        func_name == Trim(Slice(block, 0, func_name_end))
    IN  IF func_name = <<>> THEN <<>>
        ELSE <<[name |-> func_name,
                args |-> ArgKeyValues(Slice(block, func_name_end, Len(block)), {})]>>

\* parse_single_xml_tool_call that knows the function format only
parse_single_xml_tool_call_FunctionOnly(block) == parse_xml_function_format(block)

\* parse_single_xml_tool_call
parse_single_xml_tool_call(block) ==
    With(parse_xml_function_format(block), LAMBDA result :
        IF result # <<>> THEN result ELSE parse_xml_arg_key_value_format(block))

\* the loop of split_content_and_xml_tool_calls over the blocks
RECURSIVE XmlBlocks(_, _)
XmlBlocks(remaining, tool_calls) ==
    With(SplitOnce(remaining, TAG_CLOSE), LAMBDA close :
      LET block == IF close.found THEN close.before ELSE remaining
          after_close == IF close.found THEN close.after ELSE <<>>
      IN  With(tool_calls \o parse_single_xml_tool_call(block), LAMBDA calls :
            With(SplitOnce(after_close, TAG_OPEN), LAMBDA next :
              IF next.found THEN XmlBlocks(next.after, calls) ELSE calls)))

\* split_content_and_xml_tool_calls: Some((content, calls)) or None
split_content_and_xml_tool_calls(text) ==
    With(SplitOnce(text, TAG_OPEN), LAMBDA first :
      With(IF first.found THEN XmlBlocks(first.after, <<>>) ELSE <<>>,
           LAMBDA calls :
        IF calls = <<>>
        THEN [found |-> FALSE, content |-> <<>>, calls |-> <<>>, start |-> 0]
        ELSE [found |-> TRUE,
              content |-> TrimEnd(first.before),
              calls |-> calls,
              start |-> Len(first.before)]))

(***************************************************************************)
(* inference_emulated_tools.rs: StreamingEmulatorParser                    *)
(***************************************************************************)
\* the backtick byte (0x60), under a name
BT == "BT"
FENCE_EXECUTE == <<BT, BT, BT, "e", "x", "e", "c", "u", "t", "e">>
FENCE_CLOSE == <<NL, BT, BT, BT>>

\* " execute\n".len() and "\n$".len()
HOLD_BACK_CODE_MODE == Len(<<" ">> \o FENCE_EXECUTE \o <<NL>>)
HOLD_BACK_SHELL_ONLY == Len(<<NL, "$">>)

\* EmulatorAction
Text(text) == [kind |-> "Text", arg |-> text]
ShellCommand(command) == [kind |-> "ShellCommand", arg |-> command]
ExecuteCode(code) == [kind |-> "ExecuteCode", arg |-> code]

\* the command of a $ ... line: command_line.strip_prefix('$'), trimmed,
\* pushed when it is not empty
CommandOf(command_line) ==
    IF StartsWith(command_line, <<"$">>) /\ Trim(Tail(command_line)) # <<>>
    THEN <<ShellCommand(Trim(Tail(command_line)))>>
    ELSE <<>>

\* Text(text) when text.trim() is not empty
TextUnlessBlank(text) == IF Trim(text) # <<>> THEN <<Text(text)>> ELSE <<>>

\* HoldBack that keeps nothing back: the whole buffer is emitted
HoldBack_EmitsAll(buffer, code_mode_enabled) == Len(buffer)

\* the text the Normal state emits when it finds no trigger: all but the
\* last hold_back chars, unless the buffer ends with a newline
HoldBack(buffer, code_mode_enabled) ==
    LET hold_back == IF code_mode_enabled THEN HOLD_BACK_CODE_MODE
                     ELSE HOLD_BACK_SHELL_ONLY
    IN  IF Len(buffer) > hold_back /\ ~EndsWith(buffer, <<NL>>)
        THEN Len(buffer) - hold_back ELSE 0

\* the loop of process_chunk: the parser after the loop has run on the
\* buffer (to which the chunk, of chunk_len bytes, was already appended)
RECURSIVE ParserLoop(_, _, _, _, _)
ParserLoop(buffer, state, results, chunk_len, code_mode_enabled) ==
    LET done == [buffer |-> buffer, state |-> state, results |-> results]
        line == SplitOnce(buffer, <<NL>>)
        end_idx == Find(buffer, FENCE_CLOSE)
        fenced == SplitOnce(buffer, FENCE_EXECUTE \o <<NL>>)
        dollar == SplitOnce(buffer, <<NL, "$">>)
    IN  CASE state = "InCommand" ->
                IF line.found
                THEN ParserLoop(line.after, "Normal",
                                results \o CommandOf(line.before),
                                chunk_len, code_mode_enabled)
                ELSE done
          [] state = "InExecuteBlock" ->
                IF end_idx >= 0
                THEN LET code == Slice(buffer, 0, end_idx)
                         rest == Slice(buffer, end_idx + 4, Len(buffer))
                     IN  ParserLoop(
                             IF StartsWith(rest, <<NL>>) THEN Tail(rest) ELSE rest,
                             "Normal",
                             results \o (IF Trim(code) # <<>>
                                         THEN <<ExecuteCode(code)>> ELSE <<>>),
                             chunk_len, code_mode_enabled)
                ELSE done
          [] state = "Normal" ->
                IF code_mode_enabled /\ fenced.found
                THEN ParserLoop(fenced.after, "InExecuteBlock",
                                results \o TextUnlessBlank(fenced.before),
                                chunk_len, code_mode_enabled)
                ELSE IF code_mode_enabled /\ EndsWith(buffer, FENCE_EXECUTE)
                THEN ParserLoop(<<>>, "InExecuteBlock",
                                results \o TextUnlessBlank(
                                    TrimEndMatches(buffer, FENCE_EXECUTE)),
                                chunk_len, code_mode_enabled)
                ELSE IF dollar.found
                THEN ParserLoop(<<"$">> \o dollar.after, "InCommand",
                                results \o TextUnlessBlank(dollar.before \o <<NL>>),
                                chunk_len, code_mode_enabled)
                ELSE IF StartsWith(buffer, <<"$">>) /\ Len(buffer) = chunk_len
                THEN ParserLoop(buffer, "InCommand", results,
                                chunk_len, code_mode_enabled)
                ELSE LET emit_count == HoldBack(buffer, code_mode_enabled)
                     IN  IF emit_count > 0
                         THEN [buffer |-> SubSeq(buffer, emit_count + 1, Len(buffer)),
                               state |-> "Normal",
                               results |-> Append(results,
                                   Text(SubSeq(buffer, 1, emit_count)))]
                         ELSE done

\* StreamingEmulatorParser::new
NewParser == [buffer |-> <<>>, state |-> "Normal", results |-> <<>>]

\* process_chunk: the parser afterwards, results being the actions returned
process_chunk(parser, chunk, code_mode_enabled) ==
    ParserLoop(parser.buffer \o chunk, parser.state, <<>>, Len(chunk),
               code_mode_enabled)

\* flush that clears the buffer without emitting what is pending
flush_DropsPending(parser) ==
    [buffer |-> <<>>, state |-> "Normal", results |-> <<>>]

\* flush: the parser afterwards, results being the actions returned
flush(parser) ==
    IF parser.buffer = <<>>
    THEN [buffer |-> <<>>, state |-> parser.state, results |-> <<>>]
    ELSE [buffer |-> <<>>,
          state |-> "Normal",
          results |->
              CASE parser.state = "InCommand" ->
                      LET command_line == Trim(parser.buffer)
                      IN  IF StartsWith(command_line, <<"$">>)
                          THEN CommandOf(command_line)
                          ELSE IF command_line # <<>>
                          THEN <<Text(parser.buffer)>> ELSE <<>>
                [] parser.state = "InExecuteBlock" ->
                      IF Trim(parser.buffer) # <<>>
                      THEN <<ExecuteCode(Trim(parser.buffer))>> ELSE <<>>
                [] parser.state = "Normal" -> <<Text(parser.buffer)>>]

(***************************************************************************)
(* One stream() call in detail: the worker's generation on either tool     *)
(* path, the channel and the consumer of the returned stream.              *)
(***************************************************************************)
\* tokens a generation may produce: max_output of generation_loop
MaxOutput == 4
\* capacity of the mpsc channel between the worker and the consumer
ChannelCapacity == 32

\* the provider whose stream() call is followed in detail
W == 1

SHELL_TOOL == <<"developer__shell">>
CODE_EXECUTION_TOOL == <<"code_execution__execute">>

\* token pieces the model can produce on the native path
J_OPEN == <<"{", QUOTE>> \o KEY_TOOL_CALLS \o <<QUOTE, ":", "[">>
J_CALL == <<"{", QUOTE>> \o KEY_NAME \o <<QUOTE, ":", QUOTE, "m", QUOTE, "}">>
J_CLOSE == <<"]", "}">>
NativePieces ==
    { <<>>, <<"a", " ">>, <<"}">>, J_OPEN, J_CALL, J_CLOSE,
      <<"<", "t", "o", "o", "l", "_">>, <<"c", "a", "l", "l", ">", "m">> }

\* token pieces the model can produce on the emulator path
EmulatorPieces ==
    { <<>>, <<"a">>, <<"$", " ", "a">>, <<NL>>, <<NL, NL>>,
      <<NL, NL, "$", "b">>, FENCE_EXECUTE, FENCE_CLOSE }

\* the stop strings a chat template may ask for
StopChoices == { {}, {J_CLOSE} }

VARIABLES
    \* ---- the stream() call ----
    use_emulator,       \* the emulator path is taken
    code_mode_enabled,  \* the tool list holds the code execution tool
    additional_stops,   \* template_result.additional_stops
    \* ---- the worker inside generate_with_*_tools ----
    gpc,                \* where the generation is
    iter,               \* iterations of generation_loop completed
    piece,              \* the piece handed to the callback
    output_token_count, \* generation_loop's counter
    generated_text,     \* native path: text generated so far
    streamed_len,       \* native path: bytes of it already sent as text
    emulator_parser,    \* emulator path: the parser (buffer and state)
    tool_call_emitted,  \* emulator path
    send_failed,        \* emulator path
    pending,            \* what the running for-loop has still to send
    gerr,               \* the error the generation returned ("" for none)
    \* ---- channel and consumer ----
    chan,               \* every item accepted by the channel, in order
    rcvd,               \* how many of them the consumer has been yielded
    rxState,            \* the returned stream: open, dropped, ended
    \* ---- what happened so far ----
    nSampled,           \* calls of sampler.sample
    nDecoded,           \* calls of ctx.decode inside generation_loop
    failedSend,         \* some send has returned an error
    logErrors,          \* calls of log.error
    errSends            \* sends of an Err item attempted

svars == <<use_emulator, code_mode_enabled, additional_stops, gpc, iter,
           piece, output_token_count, generated_text, streamed_len,
           emulator_parser, tool_call_emitted, send_failed, pending, gerr,
           chan, rcvd, rxState, nSampled, nDecoded, failedSend,
           logErrors, errSends>>

\* items of the channel
TextItem(text) == [kind |-> "text", name |-> <<>>, body |-> text]
ToolItem(name, body) == [kind |-> "tool", name |-> name, body |-> body]
UsageItem == [kind |-> "usage", name |-> <<>>, body |-> <<>>]
ErrorItem(err) == [kind |-> "error", name |-> <<err>>, body |-> <<>>]

\* no stream() call is followed in detail
InitStreamIdle ==
    /\ use_emulator = FALSE
    /\ code_mode_enabled = FALSE
    /\ additional_stops = {}
    /\ gpc = "idle"
    /\ iter = 0
    /\ piece = <<>>
    /\ output_token_count = 0
    /\ generated_text = <<>>
    /\ streamed_len = 0
    /\ emulator_parser = [buffer |-> <<>>, state |-> "Normal"]
    /\ tool_call_emitted = FALSE
    /\ send_failed = FALSE
    /\ pending = <<>>
    /\ gerr = ""
    /\ chan = <<>>
    /\ rcvd = 0
    /\ rxState = "open"
    /\ nSampled = 0
    /\ nDecoded = 0
    /\ failedSend = FALSE
    /\ logErrors = 0
    /\ errSends = 0

\* the runtime right after provider W's stream() has spawned its worker: the
\* slot was loaded by that call; `evicted` says a stream() of another
\* provider, for another model, has emptied it again since
RuntimeAfterSpawn(evicted) ==
    LET other == IF evicted THEN {2} ELSE {} IN
    /\ runtimeLock = 0
    /\ poisoned = FALSE
    /\ weak = 1
    /\ rtPhase = [g \in Gens |-> IF g = 1 THEN "live" ELSE "unborn"]
    /\ backendInit = TRUE
    /\ slotInMap = [g \in Gens |-> IF g = 1 THEN {1} \cup other ELSE {}]
    /\ slotLoaded = [g \in Gens |-> [m \in Models |->
                        g = 1 /\ m = (IF evicted THEN 2 ELSE 1)]]
    /\ slotLock = [g \in Gens |-> [m \in Models |-> 0]]
    /\ ppc = [p \in Providers |-> IF p = W \/ p \in other THEN "idle" ELSE "absent"]
    /\ pgen = [p \in Providers |-> IF p = W \/ p \in other THEN 1 ELSE 0]
    /\ pmodel = [p \in Providers |-> IF p = W THEN 1 ELSE IF p \in other THEN 2 ELSE 0]
    /\ pHoldRt = [p \in Providers |-> p = W \/ p \in other]
    /\ pHoldSlot = [p \in Providers |-> p = W \/ p \in other]
    /\ starget = [p \in Providers |-> 0]
    /\ sothers = [p \in Providers |-> {}]
    /\ sevicted = [p \in Providers |-> {}]
    /\ wpc = [p \in Providers |-> IF p = W THEN "w_lock" ELSE "none"]
    /\ wgen = [p \in Providers |-> IF p = W THEN 1 ELSE 0]
    /\ wmodel = [p \in Providers |-> IF p = W THEN 1 ELSE 0]
    /\ wHoldRt = [p \in Providers |-> p = W]
    /\ wHoldSlot = [p \in Providers |-> p = W]

\* a stream() call of provider W has spawned its worker; the consumer holds
\* the returned stream
InitStream ==
    /\ \E evicted \in BOOLEAN : RuntimeAfterSpawn(evicted)
    /\ use_emulator \in BOOLEAN
    /\ code_mode_enabled \in (IF use_emulator THEN BOOLEAN ELSE {FALSE})
    /\ additional_stops \in (IF use_emulator THEN {{}} ELSE StopChoices)
    /\ gpc = "template"
    /\ iter = 0
    /\ piece = <<>>
    /\ output_token_count = 0
    /\ generated_text = <<>>
    /\ streamed_len = 0
    /\ emulator_parser = [buffer |-> <<>>, state |-> "Normal"]
    /\ tool_call_emitted = FALSE
    /\ send_failed = FALSE
    /\ pending = <<>>
    /\ gerr = ""
    /\ chan = <<>>
    /\ rcvd = 0
    /\ rxState = "open"
    /\ nSampled = 0
    /\ nDecoded = 0
    /\ failedSend = FALSE
    /\ logErrors = 0
    /\ errSends = 0

\* the worker of W moves on; nothing else of the runtime changes
SetWpc(v) ==
    /\ wpc' = [wpc EXCEPT ![W] = v]
    /\ UNCHANGED <<runtimeLock, poisoned, weak, rtPhase, backendInit, slotInMap,
                   slotLoaded, slotLock, ppc, pgen, pmodel, pHoldRt, pHoldSlot,
                   starget, sothers, sevicted, wgen, wmodel, wHoldRt, wHoldSlot>>

(***************************************************************************)
(* The channel: tx.blocking_send                                           *)
(***************************************************************************)
\* blocking_send returns: the receiver is gone, or the buffer has room
CanSend == rxState # "open" \/ Len(chan) - rcvd < ChannelCapacity

\* blocking_send returns Ok: the receiver is alive
SendOk == rxState = "open"

\* the effect of one blocking_send(item) on the channel
Send(item) ==
    IF SendOk
    THEN chan' = Append(chan, item) /\ UNCHANGED failedSend
    ELSE UNCHANGED chan /\ failedSend' = TRUE

\* send_err!(ProviderError::ExecutionError("Model not loaded")): log.error,
\* one send of the error, return
WorkerNotLoaded ==
    /\ wpc[W] = "w_not_loaded"
    /\ CanSend
    /\ logErrors' = logErrors + 1
    /\ errSends' = errSends + 1
    /\ Send(ErrorItem("ExecutionError"))
    /\ gpc' = "returned"
    /\ gerr' = "ExecutionError"
    /\ SetWpc("w_finished")
    /\ UNCHANGED <<use_emulator, code_mode_enabled, additional_stops, iter,
                   piece, output_token_count, generated_text, streamed_len,
                   emulator_parser, tool_call_emitted, send_failed, pending,
                   rcvd, rxState, nSampled, nDecoded>>

(***************************************************************************)
(* generate_with_native_tools / generate_with_emulated_tools: the steps    *)
(* before the loop, each of which may fail.                                *)
(***************************************************************************)
\* a step that either succeeds and goes to `next` or returns Err(err)
Fallible(at, next, err) ==
    /\ wpc[W] = "w_generate"
    /\ gpc = at
    /\ \/ gpc' = next /\ UNCHANGED gerr
       \/ gpc' = "failed" /\ gerr' = err
    /\ UNCHANGED <<rvars, use_emulator, code_mode_enabled, additional_stops,
                   iter, piece, output_token_count, generated_text,
                   streamed_len, emulator_parser, tool_call_emitted,
                   send_failed, pending, chan, rcvd, rxState, nSampled,
                   nDecoded, failedSend, logErrors, errSends>>

\* apply_chat_template (native: with the full, then the compact catalog)
GenTemplate == Fallible("template", "tokenize", "ExecutionError")

\* model.str_to_token(&prompt, AddBos::Never)
GenTokenize == Fallible("tokenize", "validate", "ExecutionError")

\* validate_and_compute_context
GenValidate == Fallible("validate", "prefill", "ContextLengthExceeded")

\* create_and_prefill_context
GenPrefill == Fallible("prefill", "sample", "ExecutionError")

(***************************************************************************)
(* inference_engine.rs: generation_loop                                    *)
(***************************************************************************)
Pieces == IF use_emulator THEN EmulatorPieces ELSE NativePieces

\* one iteration up to the callback: sampler.sample, the end-of-generation
\* test, output_token_count += 1, token_to_piece; the token's piece is one
\* of `pieces`
GenSampleFrom(pieces) ==
    /\ gpc = "sample"
    /\ iter < MaxOutput
    /\ nSampled' = nSampled + 1
    /\ \/ /\ gpc' = "after_loop"
          /\ UNCHANGED <<output_token_count, piece, gerr>>
       \/ /\ output_token_count' = output_token_count + 1
          /\ gpc' = "failed"
          /\ gerr' = "ExecutionError"
          /\ UNCHANGED piece
       \/ /\ output_token_count' = output_token_count + 1
          /\ \E pc \in pieces :
                /\ piece' = pc
                /\ gpc' = IF pc = <<>> THEN "decode" ELSE "callback"
          /\ UNCHANGED gerr
    /\ UNCHANGED <<rvars, use_emulator, code_mode_enabled, additional_stops,
                   iter, generated_text, streamed_len, emulator_parser,
                   tool_call_emitted, send_failed, pending, chan, rcvd,
                   rxState, nDecoded, failedSend, logErrors, errSends>>

GenSample == GenSampleFrom(Pieces)

\* the range 0..max_output is exhausted
GenLoopExhausted ==
    /\ gpc = "sample"
    /\ iter = MaxOutput
    /\ gpc' = "after_loop"
    /\ UNCHANGED <<rvars, use_emulator, code_mode_enabled, additional_stops,
                   iter, piece, output_token_count, generated_text,
                   streamed_len, emulator_parser, tool_call_emitted,
                   send_failed, pending, gerr, chan, rcvd, rxState, nSampled,
                   nDecoded, failedSend, logErrors, errSends>>

\* LlamaBatch::get_one and ctx.decode of the token, then the next iteration
GenDecode ==
    /\ gpc = "decode"
    /\ \/ /\ nDecoded' = nDecoded + 1
          /\ iter' = iter + 1
          /\ gpc' = "sample"
          /\ UNCHANGED gerr
       \/ /\ gpc' = "failed"
          /\ gerr' = "ExecutionError"
          /\ UNCHANGED <<nDecoded, iter>>
    /\ UNCHANGED <<rvars, use_emulator, code_mode_enabled, additional_stops,
                   piece, output_token_count, generated_text, streamed_len,
                   emulator_parser, tool_call_emitted, send_failed, pending,
                   chan, rcvd, rxState, nSampled, failedSend, logErrors,
                   errSends>>

(***************************************************************************)
(* inference_native_tools.rs: the callback and the end of the stream       *)
(***************************************************************************)
\* stream_up_to of the callback
StreamUpTo(text) ==
    With(split_content_and_tool_calls(text), LAMBDA tc :
      IF tc.found THEN Len(tc.content)
      ELSE With(split_content_and_xml_tool_calls(text), LAMBDA xml :
             IF xml.found THEN Len(xml.content)
             ELSE safe_stream_end(text)))

\* TokenAction of the native callback, mutated: a failed send is ignored
NativeTokenAction_IgnoreSendError(sent, should_stop) ==
    IF should_stop THEN "Stop" ELSE "Continue"

\* TokenAction of the native callback: Stop when the send failed, else
\* Stop when the text ends with one of the additional stops
NativeTokenAction(sent, should_stop) ==
    IF ~sent THEN "Stop" ELSE IF should_stop THEN "Stop" ELSE "Continue"

\* the callback of generate_with_native_tools
NativeCallback ==
    /\ gpc = "callback"
    /\ ~use_emulator
    /\ \E text \in {generated_text \o piece} :
       \E stream_up_to \in {StreamUpTo(text)} :
         LET sends == stream_up_to > streamed_len
             should_stop == \E stop \in additional_stops : EndsWith(text, stop)
         IN  /\ generated_text' = text
             /\ sends => CanSend
             /\ IF sends
                THEN /\ Send(TextItem(Slice(text, streamed_len, stream_up_to)))
                     /\ streamed_len' = IF SendOk THEN stream_up_to
                                        ELSE streamed_len
                ELSE UNCHANGED <<chan, failedSend, streamed_len>>
             /\ gpc' = IF NativeTokenAction(~sends \/ SendOk, should_stop) = "Stop"
                       THEN "after_loop" ELSE "decode"
    /\ UNCHANGED <<rvars, use_emulator, code_mode_enabled, additional_stops,
                   iter, piece, output_token_count, emulator_parser,
                   tool_call_emitted, send_failed, pending, gerr, rcvd,
                   rxState, nSampled, nDecoded, logErrors, errSends>>

\* what generate_with_native_tools extracts from the final text: the content
\* and the tool names of the tool-request messages, XML blocks first
FinalExtraction(text) ==
    With(split_content_and_xml_tool_calls(text), LAMBDA xml :
      IF xml.found
      THEN [content |-> xml.content,
            calls |-> [i \in 1..Len(xml.calls) |-> xml.calls[i].name],
            block |-> TRUE, start |-> xml.start]
      ELSE With(split_content_and_tool_calls(text), LAMBDA tc :
             [content |-> tc.content,
              calls |-> IF tc.found THEN extract_tool_call_messages(tc.json)
                        ELSE <<>>,
              block |-> tc.found, start |-> tc.start]))

\* the items generate_with_native_tools sends after the loop: the remaining
\* content, the tool requests or else the full-text fallback, the usage
NativeFinalItems(text, streamed) ==
    With(FinalExtraction(text), LAMBDA fin :
        (IF Len(fin.content) > streamed
         THEN <<TextItem(Slice(fin.content, streamed, Len(fin.content)))>>
         ELSE <<>>)
     \o (IF fin.calls # <<>>
         THEN [i \in 1..Len(fin.calls) |-> ToolItem(fin.calls[i], <<>>)]
         ELSE IF fin.content = <<>> /\ text # <<>>
         THEN <<TextItem(text)>>
         ELSE <<>>)
     \o <<UsageItem>>)

\* the loop has ended: the final extraction
NativeAfterLoop ==
    /\ gpc = "after_loop"
    /\ ~use_emulator
    /\ pending' = NativeFinalItems(generated_text, streamed_len)
    /\ gpc' = "post_send"
    /\ UNCHANGED <<rvars, use_emulator, code_mode_enabled, additional_stops,
                   iter, piece, output_token_count, generated_text,
                   streamed_len, emulator_parser, tool_call_emitted,
                   send_failed, gerr, chan, rcvd, rxState, nSampled, nDecoded,
                   failedSend, logErrors, errSends>>

\* let _ = tx.blocking_send(..) of the next final item; after the usage
\* record generate_with_native_tools returns Ok(())
NativePostSend ==
    /\ gpc = "post_send"
    /\ CanSend
    /\ Send(Head(pending))
    /\ pending' = Tail(pending)
    /\ IF Tail(pending) = <<>>
       THEN gpc' = "returned" /\ SetWpc("w_finished")
       ELSE UNCHANGED <<gpc, rvars>>
    /\ UNCHANGED <<use_emulator, code_mode_enabled, additional_stops, iter,
                   piece, output_token_count, generated_text, streamed_len,
                   emulator_parser, tool_call_emitted, send_failed, gerr,
                   rcvd, rxState, nSampled, nDecoded, logErrors, errSends>>

(***************************************************************************)
(* inference_emulated_tools.rs: the callback and the end of the stream     *)
(***************************************************************************)
ASYNC_RUN == <<"async function run()">>

\* the `wrapped` code of send_emulator_action
WrappedCode(code) ==
    IF Find(code, ASYNC_RUN) >= 0 THEN code
    ELSE ASYNC_RUN \o <<" ", "{", NL>> \o code \o <<NL, "}">>

\* the message send_emulator_action builds for an action
EmulatorItem(action) ==
    CASE action.kind = "Text" -> TextItem(action.arg)
      [] action.kind = "ShellCommand" -> ToolItem(SHELL_TOOL, action.arg)
      [] action.kind = "ExecuteCode" ->
            ToolItem(CODE_EXECUTION_TOOL, WrappedCode(action.arg))

\* TokenAction of the emulator callback, mutated: it never stops the loop
EmulatorTokenAction_NeverStop(failed, emitted) == "Continue"

\* TokenAction of the emulator callback: Stop on a failed send, and at its
\* end Stop when a tool call was emitted
EmulatorTokenAction(failed, emitted) ==
    IF failed \/ emitted THEN "Stop" ELSE "Continue"

\* where the loop goes on a TokenAction
AfterCallback(token_action) ==
    IF token_action = "Stop" THEN "after_loop" ELSE "decode"

\* the callback of generate_with_emulated_tools up to its for-loop
EmulatorCallback ==
    /\ gpc = "callback"
    /\ use_emulator
    /\ \E p \in {process_chunk(emulator_parser, piece, code_mode_enabled)} :
           /\ emulator_parser' = [buffer |-> p.buffer, state |-> p.state]
           /\ pending' = p.results
           /\ gpc' = IF p.results # <<>> THEN "emu_send"
                     ELSE AfterCallback(
                              EmulatorTokenAction(FALSE, tool_call_emitted))
    /\ UNCHANGED <<rvars, use_emulator, code_mode_enabled, additional_stops,
                   iter, piece, output_token_count, generated_text,
                   streamed_len, tool_call_emitted, send_failed, gerr, chan,
                   rcvd, rxState, nSampled, nDecoded, failedSend, logErrors,
                   errSends>>

\* one round of the callback's for-loop: send_emulator_action of the next
\* action; after the last one, or on a failed send, the callback returns
EmulatorSend ==
    /\ gpc = "emu_send"
    /\ CanSend
    /\ Send(EmulatorItem(Head(pending)))
    /\ IF SendOk
       THEN LET emitted == tool_call_emitted \/ Head(pending).kind # "Text"
            IN  /\ tool_call_emitted' = emitted
                /\ pending' = Tail(pending)
                /\ gpc' = IF Tail(pending) # <<>> THEN "emu_send"
                          ELSE AfterCallback(EmulatorTokenAction(FALSE, emitted))
                /\ UNCHANGED send_failed
       ELSE /\ send_failed' = TRUE
            /\ pending' = <<>>
            /\ gpc' = AfterCallback(EmulatorTokenAction(TRUE, tool_call_emitted))
            /\ UNCHANGED tool_call_emitted
    /\ UNCHANGED <<rvars, use_emulator, code_mode_enabled, additional_stops,
                   iter, piece, output_token_count, generated_text,
                   streamed_len, emulator_parser, gerr, rcvd, rxState,
                   nSampled, nDecoded, logErrors, errSends>>

\* the loop has ended: if !send_failed, emulator_parser.flush()
EmulatorAfterLoop ==
    /\ gpc = "after_loop"
    /\ use_emulator
    /\ IF send_failed
       THEN /\ gpc' = "usage"
            /\ UNCHANGED <<emulator_parser, pending>>
       ELSE \E f \in {flush(emulator_parser)} :
                /\ emulator_parser' = [buffer |-> f.buffer, state |-> f.state]
                /\ pending' = f.results
                /\ gpc' = IF f.results = <<>> THEN "usage" ELSE "flush_send"
    /\ UNCHANGED <<rvars, use_emulator, code_mode_enabled, additional_stops,
                   iter, piece, output_token_count, generated_text,
                   streamed_len, tool_call_emitted, send_failed, gerr, chan,
                   rcvd, rxState, nSampled, nDecoded, failedSend, logErrors,
                   errSends>>

\* one round of the for-loop over the flushed actions; it breaks on a
\* failed send
EmulatorFlushSend ==
    /\ gpc = "flush_send"
    /\ CanSend
    /\ Send(EmulatorItem(Head(pending)))
    /\ pending' = IF SendOk THEN Tail(pending) ELSE <<>>
    /\ gpc' = IF SendOk /\ Tail(pending) # <<>> THEN "flush_send" ELSE "usage"
    /\ UNCHANGED <<rvars, use_emulator, code_mode_enabled, additional_stops,
                   iter, piece, output_token_count, generated_text,
                   streamed_len, emulator_parser, tool_call_emitted,
                   send_failed, gerr, rcvd, rxState, nSampled, nDecoded,
                   logErrors, errSends>>

\* finalize_usage and the send of the usage record; Ok(()) is returned
EmulatorUsage ==
    /\ gpc = "usage"
    /\ CanSend
    /\ Send(UsageItem)
    /\ gpc' = "returned"
    /\ SetWpc("w_finished")
    /\ UNCHANGED <<use_emulator, code_mode_enabled, additional_stops, iter,
                   piece, output_token_count, generated_text, streamed_len,
                   emulator_parser, tool_call_emitted, send_failed, pending,
                   gerr, rcvd, rxState, nSampled, nDecoded, logErrors,
                   errSends>>

(***************************************************************************)
(* local_inference.rs: the worker after the generation, and the consumer   *)
(***************************************************************************)
\* if let Err(err) = result: log.error(msg), one send of the error
WorkerResultErr ==
    /\ gpc = "failed"
    /\ CanSend
    /\ logErrors' = logErrors + 1
    /\ errSends' = errSends + 1
    /\ Send(ErrorItem(gerr))
    /\ gpc' = "returned"
    /\ SetWpc("w_finished")
    /\ UNCHANGED <<use_emulator, code_mode_enabled, additional_stops, iter,
                   piece, output_token_count, generated_text, streamed_len,
                   emulator_parser, tool_call_emitted, send_failed, pending,
                   gerr, rcvd, rxState, nSampled, nDecoded>>

\* the worker takes the slot lock
StreamWorkerLock == WorkerLock(W) /\ UNCHANGED svars

\* the closure returns: the guard goes, and with the closure its sender
StreamWorkerReturn ==
    /\ wpc[W] = "w_finished"
    /\ WorkerReturn(W)
    /\ UNCHANGED svars

\* the sender has been dropped
SenderDropped == wpc[W] = "w_drop"

\* the stream after an item, mutated: an Err item does not end it
AfterYield_GoesOn(item) == "open"

\* the stream after `let item = result?; yield item;`
AfterYield(item) == IF item.kind = "error" THEN "ended" ELSE "open"

\* rx.recv().await returned Some(result): an Ok item is yielded, an Err
\* item is yielded and ends the stream
ConsumerRecv ==
    /\ rxState = "open"
    /\ rcvd < Len(chan)
    /\ rcvd' = rcvd + 1
    /\ rxState' = AfterYield(chan[rcvd + 1])
    /\ UNCHANGED <<rvars, use_emulator, code_mode_enabled, additional_stops,
                   gpc, iter, piece, output_token_count, generated_text,
                   streamed_len, emulator_parser, tool_call_emitted,
                   send_failed, pending, gerr, chan, nSampled, nDecoded,
                   failedSend, logErrors, errSends>>

\* rx.recv().await returned None: the stream ends
ConsumerEnd ==
    /\ rxState = "open"
    /\ rcvd = Len(chan)
    /\ SenderDropped
    /\ rxState' = "ended"
    /\ UNCHANGED <<rvars, use_emulator, code_mode_enabled, additional_stops,
                   gpc, iter, piece, output_token_count, generated_text,
                   streamed_len, emulator_parser, tool_call_emitted,
                   send_failed, pending, gerr, chan, rcvd, nSampled, nDecoded,
                   failedSend, logErrors, errSends>>

\* the caller drops the returned stream, and with it the receiver
ConsumerDrop ==
    /\ rxState = "open"
    /\ rxState' = "dropped"
    /\ UNCHANGED <<rvars, use_emulator, code_mode_enabled, additional_stops,
                   gpc, iter, piece, output_token_count, generated_text,
                   streamed_len, emulator_parser, tool_call_emitted,
                   send_failed, pending, gerr, chan, rcvd, nSampled, nDecoded,
                   failedSend, logErrors, errSends>>

\* a smaller vocabulary, for the specification with fairness
FewPieces ==
    IF use_emulator THEN { <<>>, <<"a">>, <<"$", " ", "a">>, <<NL>> }
    ELSE { <<>>, <<"a", " ">>, J_OPEN, J_CLOSE }

GenSampleFew == GenSampleFrom(FewPieces)

(***************************************************************************)
(* The emulator parser on its own: parse_chunks of the module's tests, on  *)
(* a text cut into chunks at arbitrary places.                             *)
(***************************************************************************)
\* words a text is made of, and how many of them
ParserMaxWords == 3
\* chunks a text is cut into, at most
ParserMaxChunks == 4
ParserWords == EmulatorPieces \ {<<>>}

RECURSIVE TextsOf(_)
TextsOf(k) ==
    IF k = 0 THEN {<<>>}
    ELSE LET shorter == TextsOf(k - 1)
         IN  shorter \cup {t \o w : t \in shorter, w \in ParserWords}

VARIABLES
    input,          \* the whole text
    code_mode,      \* the parser's code_mode_enabled
    fed,            \* bytes of the text already fed as chunks
    chunks,         \* number of chunks fed
    parser,         \* the parser (buffer and state)
    actions,        \* the actions collected so far
    flushed         \* flush has been called

qvars == <<input, code_mode, fed, chunks, parser, actions, flushed>>

\* no parser run is followed
InitParserIdle ==
    /\ input = <<>>
    /\ code_mode = FALSE
    /\ fed = 0
    /\ chunks = 0
    /\ parser = [buffer |-> <<>>, state |-> "Normal"]
    /\ actions = <<>>
    /\ flushed = TRUE

\* StreamingEmulatorParser::new(code_mode) and an empty action list
InitParser ==
    /\ input \in TextsOf(ParserMaxWords)
    /\ code_mode \in BOOLEAN
    /\ fed = 0
    /\ chunks = 0
    /\ parser = [buffer |-> <<>>, state |-> "Normal"]
    /\ actions = <<>>
    /\ flushed = FALSE

\* actions.extend(parser.process_chunk(chunk)) for the next chunk, of any
\* length from one byte to all that is left (all of it for the last chunk)
ParserFeed ==
    /\ ~flushed
    /\ chunks < ParserMaxChunks
    /\ chunks' = chunks + 1
    /\ \E n \in 1..(Len(input) - fed) :
          /\ chunks + 1 = ParserMaxChunks => n = Len(input) - fed
          /\ \E p \in {process_chunk(parser, Slice(input, fed, fed + n), code_mode)} :
             /\ parser' = [buffer |-> p.buffer, state |-> p.state]
             /\ actions' = actions \o p.results
             /\ fed' = fed + n
    /\ UNCHANGED <<input, code_mode, flushed>>

\* actions.extend(parser.flush()) after the last chunk
ParserFlush ==
    /\ ~flushed
    /\ fed = Len(input)
    /\ \E f \in {flush(parser)} :
          /\ parser' = [buffer |-> f.buffer, state |-> f.state]
          /\ actions' = actions \o f.results
    /\ flushed' = TRUE
    /\ UNCHANGED <<input, code_mode, fed, chunks>>

\* parse_all: the whole text as one chunk, then flush
parse_all(text, mode) ==
    IF text = <<>> THEN <<>>
    ELSE With(process_chunk(NewParser, text, mode), LAMBDA p :
            p.results \o flush(p).results)


(***************************************************************************)
(* Outputs that hold one trigger: text, a newline, then a `$ cmd` line or  *)
(* an execute block (tests dollar_split_across_chunks and the like).       *)
(***************************************************************************)
TriggerTexts ==
    { <<>>, <<"a">>, <<"a", " ", " ">>,
      [i \in 1..(HOLD_BACK_CODE_MODE + 3) |-> IF i % 2 = 1 THEN "a" ELSE " "] }
TriggerCommands == { <<"a">>, <<"l", "s", " ", "-", "l">>, <<" ", "a", " ">> }
TriggerCodes == { <<"a">>, <<"a", NL, " ", "b">>, <<" ", "a", NL>> }

\* text, newline, `$ cmd`, newline
ShellOutput(text, cmd) == text \o <<NL, "$", " ">> \o cmd \o <<NL>>
\* text, newline, the execute fence, the code, the closing fence
ExecuteOutput(text, code) ==
    text \o <<NL>> \o FENCE_EXECUTE \o <<NL>> \o code \o FENCE_CLOSE \o <<NL>>

\* StreamingEmulatorParser::new(code_mode) for an output with one trigger
InitTriggerOutput ==
    /\ code_mode \in BOOLEAN
    /\ input \in {ShellOutput(text, cmd) : text \in TriggerTexts, cmd \in TriggerCommands}
                 \cup (IF code_mode
                       THEN {ExecuteOutput(text, code) :
                                text \in TriggerTexts, code \in TriggerCodes}
                       ELSE {})
    /\ fed = 0
    /\ chunks = 0
    /\ parser = [buffer |-> <<>>, state |-> "Normal"]
    /\ actions = <<>>
    /\ flushed = FALSE
(***************************************************************************)
(* The text a generation accumulates piece by piece                        *)
(* (inference_native_tools.rs: the text after push_str(piece)), and the    *)
(* final split of it.                                                      *)
(***************************************************************************)
TextMaxChunks == 4

\* an object with an empty "tool_calls" array
J_EMPTY == J_OPEN \o J_CLOSE

\* an object whose "tool_calls" array holds the string "}"
J_BRACE == J_OPEN \o <<QUOTE, "}", QUOTE>> \o J_CLOSE

\* the pieces a generation is extended by
TextPieces ==
    { <<"a">>, <<" ">>, <<NL>>, <<"{">>, <<"}">>, <<"<">>,
      <<"<", "t", "o", "o", "l", "_">>, <<"c", "a", "l", "l", ">">>,
      J_EMPTY, J_BRACE }

VARIABLES
    text_before,     \* text_after before the last piece
    piece_added,     \* the last piece pushed
    pieces_pushed,   \* number of pieces pushed so far
    split_done,      \* the final split has been made
    split_result     \* its result

tvars == <<text_before, piece_added, pieces_pushed, split_done, split_result>>

NoSplit == [content |-> <<>>, found |-> FALSE, json |-> <<>>, start |-> 0]

text_after == text_before \o piece_added

InitTextIdle ==
    /\ text_before = <<>>
    /\ piece_added = <<>>
    /\ pieces_pushed = TextMaxChunks
    /\ split_done = TRUE
    /\ split_result = NoSplit

InitText ==
    /\ text_before = <<>>
    /\ piece_added = <<>>
    /\ pieces_pushed = 0
    /\ split_done = FALSE
    /\ split_result = NoSplit

\* generated_text.push_str(piece)
TextPush ==
    /\ ~split_done
    /\ pieces_pushed < TextMaxChunks
    /\ \E c \in TextPieces :
         /\ text_before' = text_after
         /\ piece_added' = c
    /\ pieces_pushed' = pieces_pushed + 1
    /\ UNCHANGED <<split_done, split_result>>

\* the split of the whole text after the generation loop
TextSplit ==
    /\ ~split_done
    /\ split_done' = TRUE
    /\ split_result' = split_content_and_tool_calls(text_after)
    /\ UNCHANGED <<text_before, piece_added, pieces_pushed>>
(***************************************************************************)
(* goose-cli session/streaming_buffer.rs: MarkdownBuffer.                  *)
(***************************************************************************)
BACKSLASH == "\\"

\* the characters the plain-text alternative of INLINE_TOKEN_RE excludes
InlineSpecial == {BACKSLASH, "*", "_", BT, "~", "[", "]", "!", "(", ")"}

\* the number of bytes from offset i on that satisfy P, at least one
RunLen(line, i, P(_)) ==
    CHOOSE n \in 1..(Len(line) - i) :
        /\ \A k \in 1..n : P(line[i + k])
        /\ i + n = Len(line) \/ ~P(line[i + n + 1])

\* the length of the match of INLINE_TOKEN_RE at offset i of the line:
\* the first alternative that matches there
TokenLen(line, i) ==
    LET c == line[i + 1]
        follows(k, ch) == i + k + 1 <= Len(line) /\ line[i + k + 1] = ch
    IN  IF c = BACKSLASH /\ i + 2 <= Len(line) /\ line[i + 2] # NL THEN 2
        ELSE IF c = BT THEN RunLen(line, i, LAMBDA b : b = BT)
        ELSE IF c \in {"*", "_"}
        THEN (IF follows(1, c) /\ follows(2, c) THEN 3
              ELSE IF follows(1, c) THEN 2 ELSE 1)
        ELSE IF c = "~" /\ follows(1, "~") THEN 2
        ELSE IF c = "!" /\ follows(1, "[") THEN 2
        ELSE IF c = "]" /\ follows(1, "(") THEN 2
        ELSE IF c \in {"[", "]", ")"} THEN 1
        ELSE IF c \notin InlineSpecial
        THEN RunLen(line, i, LAMBDA b : b \notin InlineSpecial)
        ELSE 1

\* ParseState::default()
NUL == "NUL"
ParseStateDefault ==
    [in_code_block |-> FALSE, code_fence_char |-> NUL, code_fence_len |-> 0,
     in_table |-> FALSE, pending_heading |-> FALSE,
     in_inline_code |-> FALSE, inline_code_len |-> 0,
     in_bold |-> FALSE, in_italic |-> FALSE, in_strikethrough |-> FALSE,
     in_link_text |-> FALSE, in_link_url |-> FALSE, in_image_alt |-> FALSE]

\* ParseState::is_clean
is_clean(st) ==
    /\ ~st.in_code_block
    /\ ~st.in_table
    /\ ~st.pending_heading
    /\ ~st.in_inline_code
    /\ ~st.in_bold
    /\ ~st.in_italic
    /\ ~st.in_strikethrough
    /\ ~st.in_link_text
    /\ ~st.in_link_url
    /\ ~st.in_image_alt

\* process_inline_token: the state after the token
process_inline_token(st, token) ==
    IF token[1] = BACKSLASH /\ Len(token) = 2 THEN st
    ELSE IF token[1] = BT
    THEN (IF st.in_inline_code
          THEN (IF Len(token) = st.inline_code_len
                THEN [st EXCEPT !.in_inline_code = FALSE, !.inline_code_len = 0]
                ELSE st)
          ELSE [st EXCEPT !.in_inline_code = TRUE, !.inline_code_len = Len(token)])
    ELSE IF st.in_inline_code THEN st
    ELSE IF token \in {<<"*", "*", "*">>, <<"_", "_", "_">>}
    THEN (IF st.in_bold /\ st.in_italic
          THEN [st EXCEPT !.in_bold = FALSE, !.in_italic = FALSE]
          ELSE IF st.in_bold THEN [st EXCEPT !.in_italic = ~st.in_italic]
          ELSE IF st.in_italic THEN [st EXCEPT !.in_bold = ~st.in_bold]
          ELSE [st EXCEPT !.in_bold = TRUE, !.in_italic = TRUE])
    ELSE IF token \in {<<"*", "*">>, <<"_", "_">>}
    THEN [st EXCEPT !.in_bold = ~st.in_bold]
    ELSE IF token \in {<<"*">>, <<"_">>}
    THEN [st EXCEPT !.in_italic = ~st.in_italic]
    ELSE IF token = <<"~", "~">>
    THEN [st EXCEPT !.in_strikethrough = ~st.in_strikethrough]
    ELSE IF token = <<"!", "[">> THEN [st EXCEPT !.in_image_alt = TRUE]
    ELSE IF token = <<"[">>
    THEN (IF ~st.in_link_text /\ ~st.in_image_alt
          THEN [st EXCEPT !.in_link_text = TRUE] ELSE st)
    ELSE IF token = <<"]", "(">>
    THEN (IF st.in_link_text
          THEN [st EXCEPT !.in_link_text = FALSE, !.in_link_url = TRUE]
          ELSE IF st.in_image_alt
          THEN [st EXCEPT !.in_image_alt = FALSE, !.in_link_url = TRUE]
          ELSE st)
    ELSE IF token = <<")">>
    THEN (IF st.in_link_url THEN [st EXCEPT !.in_link_url = FALSE] ELSE st)
    ELSE st

\* the position after the fence line: `line.find('\n')` + 1, or line.len()
AfterFenceLine(line) ==
    IF Find(line, <<NL>>) >= 0 THEN Find(line, <<NL>>) + 1 ELSE Len(line)

\* check_code_fence: hit is Some/None, adv the returned position, st the
\* state it leaves
check_code_fence(line, st) ==
    LET trimmed == TrimStart(line)
        none == [hit |-> FALSE, adv |-> 0, st |-> st]
    IN  IF trimmed = <<>> THEN none
        ELSE IF trimmed[1] \notin {BT, "~"} THEN none
        ELSE LET fence_char == trimmed[1]
                 fence_len == RunLen(trimmed, 0, LAMBDA b : b = fence_char)
                 after_fence == Slice(trimmed, fence_len, Len(trimmed))
             IN  IF fence_len < 3 THEN none
                 ELSE IF st.in_code_block
                 THEN (IF /\ fence_char = st.code_fence_char
                          /\ fence_len >= st.code_fence_len
                          /\ \/ after_fence = <<>>
                             \/ StartsWith(after_fence, <<NL>>)
                             \/ Trim(after_fence) = <<>>
                       THEN [hit |-> TRUE, adv |-> AfterFenceLine(line),
                             st |-> [st EXCEPT !.in_code_block = FALSE,
                                               !.code_fence_char = NUL,
                                               !.code_fence_len = 0]]
                       ELSE none)
                 ELSE [hit |-> TRUE, adv |-> AfterFenceLine(line),
                       st |-> [st EXCEPT !.in_code_block = TRUE,
                                         !.code_fence_char = fence_char,
                                         !.code_fence_len = fence_len]]

\* process_line_start: hit is Some/None, pos the returned position, st the
\* state it leaves
process_line_start(buffer, st0, pos) ==
    LET remaining == Slice(buffer, pos, Len(buffer))
        st == [st0 EXCEPT !.pending_heading = FALSE]
        fence == check_code_fence(remaining, st)
        hashes == RunLen(remaining, 0, LAMBDA b : b = "#")
        after_hashes == Slice(remaining, hashes, Len(remaining))
    IN  IF fence.hit THEN [hit |-> TRUE, pos |-> pos + fence.adv, st |-> fence.st]
        ELSE IF st.in_code_block THEN [hit |-> FALSE, pos |-> pos, st |-> st]
        ELSE IF /\ StartsWith(remaining, <<"#">>)
                /\ hashes <= 6
                /\ \/ after_hashes = <<>>
                   \/ StartsWith(after_hashes, <<" ">>)
                   \/ StartsWith(after_hashes, <<NL>>)
        THEN [hit |-> FALSE, pos |-> pos, st |-> [st EXCEPT !.pending_heading = TRUE]]
        ELSE IF StartsWith(remaining, <<"|">>)
        THEN [hit |-> FALSE, pos |-> pos, st |-> [st EXCEPT !.in_table = TRUE]]
        ELSE IF (StartsWith(remaining, <<NL>>) \/ remaining = <<>>) /\ st.in_table
        THEN [hit |-> TRUE, pos |-> pos + 1, st |-> [st EXCEPT !.in_table = FALSE]]
        ELSE [hit |-> FALSE, pos |-> pos, st |-> [st EXCEPT !.in_table = FALSE]]

\* the loop `for cap in INLINE_TOKEN_RE.find_iter(line_content)` from offset
\* i of the line on; scan is <<state, last_safe>>, base the line's position
RECURSIVE InlineTokens(_, _, _, _)
InlineTokens(line, i, base, scan) ==
    IF i >= Len(line) THEN scan
    ELSE With(TokenLen(line, i), LAMBDA n :
           With(process_inline_token(scan[1], Slice(line, i, i + n)), LAMBDA st :
             InlineTokens(line, i + n, base,
                          <<st, IF is_clean(st) THEN base + i + n ELSE scan[2]>>)))

\* the end of the line that starts at pos: after its newline, or the end
LineEnd(buffer, pos) ==
    With(Find(Slice(buffer, pos, Len(buffer)), <<NL>>), LAMBDA i :
      IF i >= 0 THEN pos + i + 1 ELSE Len(buffer))

\* the body of `while pos < len` in find_safe_end; scan is <<state, last_safe>>
RECURSIVE SafeEndLoop(_, _, _)
SafeEndLoop(buffer, pos, scan) ==
    IF pos >= Len(buffer) THEN scan[2]
    ELSE With(IF pos = 0 \/ buffer[pos] = NL
              THEN process_line_start(buffer, scan[1], pos)
              ELSE [hit |-> FALSE, pos |-> pos, st |-> scan[1]], LAMBDA start :
      IF start.hit
      THEN SafeEndLoop(buffer, start.pos,
                       <<start.st, IF is_clean(start.st) THEN start.pos ELSE scan[2]>>)
      ELSE IF start.st.in_code_block
      THEN SafeEndLoop(buffer, LineEnd(buffer, pos), <<start.st, scan[2]>>)
      ELSE With(LineEnd(buffer, pos), LAMBDA line_end :
             With(InlineTokens(Slice(buffer, pos, line_end), 0, pos,
                               <<start.st, scan[2]>>), LAMBDA after :
               IF buffer[line_end] = NL
               THEN With([after[1] EXCEPT !.pending_heading = FALSE], LAMBDA st :
                      SafeEndLoop(buffer, line_end,
                                  <<st, IF is_clean(st) THEN line_end ELSE after[2]>>))
               ELSE SafeEndLoop(buffer, line_end, after))))

\* MarkdownBuffer::find_safe_end
find_safe_end(buffer) == SafeEndLoop(buffer, 0, <<ParseStateDefault, 0>>)

\* push that returns the safe text and keeps the whole buffer
MarkdownBuffer_push_KeepsAll(buffer, chunk) ==
    With(buffer \o chunk, LAMBDA appended :
      With(find_safe_end(appended), LAMBDA safe_end :
        [some |-> safe_end > 0,
         to_render |-> Slice(appended, 0, safe_end),
         buffer |-> appended]))

\* MarkdownBuffer::push: some/to_render the returned Option, buffer the
\* buffer it leaves
MarkdownBuffer_push(buffer, chunk) ==
    With(buffer \o chunk, LAMBDA appended :
      With(find_safe_end(appended), LAMBDA safe_end :
        IF safe_end > 0
        THEN [some |-> TRUE,
              to_render |-> Slice(appended, 0, safe_end),
              buffer |-> Slice(appended, safe_end, Len(appended))]
        ELSE [some |-> FALSE, to_render |-> <<>>, buffer |-> appended]))

\* MarkdownBuffer::flush: std::mem::take(&mut self.buffer)
MarkdownBuffer_flush(buffer) == [remaining |-> buffer, buffer |-> <<>>]

(***************************************************************************)
(* A markdown text streamed through a MarkdownBuffer in chunks cut at      *)
(* arbitrary places (tests::stream).                                       *)
(***************************************************************************)
\* chunks a text is cut into, at most
MdMaxChunks == 4

\* what precedes a construct: nothing, text, a line, a line and a blank line
MdBefore == { <<>>, <<"a">>, <<"a", NL>>, <<"a", NL, NL>> }

MdFences == { <<BT, BT, BT>>, <<"~", "~", "~">>, <<BT, BT, BT, BT>> }

\* fenced code blocks: opening fence with or without info string, body
\* lines, closing fence line
MdFenced ==
    { fence \o info \o <<NL>> \o body \o fence \o <<NL>> :
        fence \in MdFences, info \in {<<>>, <<"r">>}, body \in {<<>>, <<"c", NL>>} }

\* closed inline constructs
MdInline ==
    { <<"*", "*", "b", "*", "*">>, <<"*", "b", "*">>, <<"_", "b", "_">>,
      <<"~", "~", "b", "~", "~">>, <<BT, "b", BT>>,
      <<"[", "b", "]", "(", "u", ")">>, <<"!", "[", "b", "]", "(", "u", ")">> }

\* a heading, a table row, an escaped star, lone special characters
MdOther ==
    { <<"#", " ", "h", NL>>, <<"|", "t", "|", NL>>, <<BACKSLASH, "*">>,
      <<"!">>, <<"b">> }

MdAfter == { <<>>, <<" ", "c">> }

MdTexts ==
    { before \o construct \o after :
        before \in MdBefore,
        construct \in MdFenced \cup MdInline \cup MdOther,
        after \in MdAfter }

VARIABLES
    md_input,       \* the whole text
    md_fed,         \* bytes of the text already pushed
    md_chunks,      \* number of chunks pushed
    md_buffer,      \* MarkdownBuffer.buffer
    md_results,     \* the strings push has returned, in order
    md_remaining,   \* what flush returned
    md_flushed      \* flush has been called

mvars == <<md_input, md_fed, md_chunks, md_buffer, md_results, md_remaining,
           md_flushed>>

\* no markdown stream is followed
InitMarkdownIdle ==
    /\ md_input = <<>>
    /\ md_fed = 0
    /\ md_chunks = 0
    /\ md_buffer = <<>>
    /\ md_results = <<>>
    /\ md_remaining = <<>>
    /\ md_flushed = TRUE

\* MarkdownBuffer::new() and no result yet
InitMarkdown ==
    /\ md_input \in MdTexts
    /\ md_fed = 0
    /\ md_chunks = 0
    /\ md_buffer = <<>>
    /\ md_results = <<>>
    /\ md_remaining = <<>>
    /\ md_flushed = FALSE

\* buf.push(chunk) for the next chunk, of any length from one byte to all
\* that is left (all of it for the last chunk); None is skipped
MdPush ==
    /\ ~md_flushed
    /\ md_chunks < MdMaxChunks
    /\ md_chunks' = md_chunks + 1
    /\ \E n \in 1..(Len(md_input) - md_fed) :
          /\ md_chunks + 1 = MdMaxChunks => n = Len(md_input) - md_fed
          /\ \E p \in {MarkdownBuffer_push(md_buffer,
                                           Slice(md_input, md_fed, md_fed + n))} :
             /\ md_buffer' = p.buffer
             /\ md_results' = IF p.some THEN Append(md_results, p.to_render)
                              ELSE md_results
             /\ md_fed' = md_fed + n
    /\ UNCHANGED <<md_input, md_remaining, md_flushed>>

\* buf.flush() after the last chunk
MdFlush ==
    /\ ~md_flushed
    /\ md_fed = Len(md_input)
    /\ \E f \in {MarkdownBuffer_flush(md_buffer)} :
          /\ md_buffer' = f.buffer
          /\ md_remaining' = f.remaining
    /\ md_flushed' = TRUE
    /\ UNCHANGED <<md_input, md_fed, md_chunks, md_results>>
(***************************************************************************)
(* local_inference/local_model_registry.rs: LocalModelRegistry, with the   *)
(* files of the models directory and the download manager's progress       *)
(* records as it observes them, and the routes that call it.               *)
(***************************************************************************)
\* entries one sync_with_featured call is passed, at most
MaxFeaturedPassed == 2
\* saves that fail, at most
MaxSaveFailures == 1

\* FEATURED_MODELS, "author/repo:quantization": one of them stands for all
FEATURED_MODELS == { <<"a", "/", "x", ":", "q">> }

\* the specs a download can be asked for
ModelSpecs == FEATURED_MODELS \cup { <<"u", "/", "z", ":", "q">> }

\* str::rsplit_once with a one-byte pattern
RSplitOnce(text, ch) ==
    LET hits == {i \in 1..Len(text) : text[i] = ch}
    IN  IF hits = {} THEN [found |-> FALSE, before |-> <<>>, after |-> <<>>]
        ELSE LET i == CHOOSE h \in hits : \A j \in hits : j <= h
             IN  [found |-> TRUE, before |-> SubSeq(text, 1, i - 1),
                  after |-> SubSeq(text, i + 1, Len(text))]

\* hf_models::parse_model_spec
parse_model_spec(spec) ==
    LET parts == RSplitOnce(spec, ":")
    IN  IF ~parts.found \/ Find(parts.before, <<"/">>) < 0
        THEN [ok |-> FALSE, repo_id |-> <<>>, quant |-> <<>>]
        ELSE [ok |-> TRUE, repo_id |-> parts.before, quant |-> parts.after]

\* model_id_from_repo: format!("{}:{}", repo_id, quantization)
model_id_from_repo(repo_id, quantization) == repo_id \o <<":">> \o quantization

\* is_featured_model without any featured model
is_featured_model_Never(model_id) == FALSE

\* is_featured_model
is_featured_model(model_id) ==
    \E spec \in FEATURED_MODELS :
        /\ parse_model_spec(spec).ok
        /\ model_id_from_repo(parse_model_spec(spec).repo_id,
                              parse_model_spec(spec).quant) = model_id

\* the file name the routes give a model when the repository's file list
\* is not at hand: "{repo name}-{quantization}.gguf"
FileNameOf(repo_id, quantization) ==
    (IF RSplitOnce(repo_id, "/").found THEN RSplitOnce(repo_id, "/").after
     ELSE repo_id) \o <<"-">> \o quantization

\* the LocalModelEntry the routes build from a spec, with the given settings
EntryOf(spec, settings) ==
    LET p == parse_model_spec(spec)
    IN  [id |-> model_id_from_repo(p.repo_id, p.quant),
         local_path |-> FileNameOf(p.repo_id, p.quant),
         settings |-> settings]

\* ModelSettings values: the default and one other
SettingsValues == {"default", "edited"}

Entries == {EntryOf(spec, s) : spec \in ModelSpecs, s \in SettingsValues}
ModelIds == {e.id : e \in Entries}
\* the entries ensure_featured_models_in_registry builds
FeaturedEntries == {EntryOf(spec, "default") : spec \in FEATURED_MODELS}

\* format!("{}-model", id)
DownloadId(id) == id \o <<"-", "m", "o", "d", "e", "l">>

\* get_progress: None, or a progress record with one of the DownloadStatus
\* values
ProgressValues == {"None", "Downloading", "Completed", "Failed", "Cancelled"}

VARIABLES
    reg_models,     \* LocalModelRegistry.models of REGISTRY
    reg_file,       \* the registry last saved to models/registry.json
    reg_failures,   \* number of saves that have failed
    reg_disk,       \* the model files that exist
    reg_progress,   \* the download manager's record for each download id
    reg_call        \* the last registry call: its name, its arguments (id,
                    \* entry, or the ids of the entries passed), whether it
                    \* returned Ok and the entries it removed

gvars == <<reg_models, reg_file, reg_failures, reg_disk, reg_progress, reg_call>>

NoCall ==
    [op |-> "none", id |-> <<>>, entries |-> <<>>, passed |-> {}, ok |-> TRUE,
     dropped |-> {}, err |-> ""]

\* the entries of the first list whose id the second list does not hold
Dropped(before, after) ==
    {before[i] : i \in {j \in 1..Len(before) :
                            \A k \in 1..Len(after) : after[k].id # before[j].id}}

\* LocalModelEntry::is_downloaded
is_downloaded(m) == m.local_path \in reg_disk

\* LocalModelEntry::is_downloading
is_downloading(m) == reg_progress[DownloadId(m.id)] # "None"

\* LocalModelEntry::download_status
download_status(m) ==
    IF m.local_path \in reg_disk THEN "Downloaded"
    ELSE IF reg_progress[DownloadId(m.id)] = "Downloading" THEN "Downloading"
    ELSE IF reg_progress[DownloadId(m.id)] = "Completed" THEN "Downloaded"
    ELSE "NotDownloaded"

\* has_model, get_model (<<>> for None)
has_model(models, id) == \E i \in 1..Len(models) : models[i].id = id
get_model(models, id) ==
    IF has_model(models, id)
    THEN <<models[CHOOSE i \in 1..Len(models) :
                    models[i].id = id /\ \A j \in 1..(i - 1) : models[j].id # id]>>
    ELSE <<>>

\* the first loop of sync_with_featured: push every entry whose id is absent
RECURSIVE PushMissing(_, _)
PushMissing(models, featured_entries) ==
    IF featured_entries = <<>> THEN models
    ELSE PushMissing(IF has_model(models, Head(featured_entries).id) THEN models
                     ELSE Append(models, Head(featured_entries)),
                     Tail(featured_entries))

\* sync_with_featured: the models it leaves and whether it saves
sync_with_featured(models, featured_entries) ==
    LET pushed == PushMissing(models, featured_entries)
        retained == SelectSeq(pushed, LAMBDA m :
                        is_downloaded(m) \/ is_downloading(m) \/ is_featured_model(m.id))
    IN  [models |-> retained,
         changed |-> Len(pushed) # Len(models) \/ Len(retained) # Len(pushed)]

\* add_model that pushes without looking for the id
add_model_AlwaysPush(models, entry) == Append(models, entry)

\* add_model that leaves an existing entry as it is
add_model_KeepsExisting(models, entry) ==
    IF has_model(models, entry.id) THEN models ELSE Append(models, entry)

\* add_model: the models it leaves
add_model(models, entry) ==
    IF has_model(models, entry.id)
    THEN LET first == CHOOSE i \in 1..Len(models) :
                         models[i].id = entry.id
                             /\ \A j \in 1..(i - 1) : models[j].id # entry.id
         IN  [models EXCEPT ![first] = entry]
    ELSE Append(models, entry)

\* remove_model: the models it leaves
remove_model(models, id) == SelectSeq(models, LAMBDA m : m.id # id)

\* update_model_settings: found is false for "Model not found"
update_model_settings(models, id, settings) ==
    IF has_model(models, id)
    THEN LET first == CHOOSE i \in 1..Len(models) :
                         models[i].id = id /\ \A j \in 1..(i - 1) : models[j].id # id
         IN  [found |-> TRUE, models |-> [models EXCEPT ![first].settings = settings]]
    ELSE [found |-> FALSE, models |-> models]

\* no registry is followed
InitRegistryIdle ==
    /\ reg_models = <<>>
    /\ reg_file = <<>>
    /\ reg_failures = 0
    /\ reg_disk = {}
    /\ reg_progress = [d \in {DownloadId(id) : id \in ModelIds} |-> "None"]
    /\ reg_call = [NoCall EXCEPT !.op = "idle"]

\* LocalModelRegistry::default(): no registry file, no model file, no
\* download
InitRegistry ==
    /\ reg_models = <<>>
    /\ reg_file = <<>>
    /\ reg_failures = 0
    /\ reg_disk = {}
    /\ reg_progress = [d \in {DownloadId(id) : id \in ModelIds} |-> "None"]
    /\ reg_call = NoCall

RegistryLive == reg_call.op # "idle"

\* self.save(): the file takes the models, or the save fails and the file
\* stays
Save(models, ok) ==
    /\ ok \/ reg_failures < MaxSaveFailures
    /\ reg_file' = IF ok THEN models ELSE reg_file
    /\ reg_failures' = IF ok THEN reg_failures ELSE reg_failures + 1

\* registry.add_model(entry)
AddModel(entry) ==
    /\ RegistryLive
    /\ \E ok \in BOOLEAN :
          /\ reg_models' = add_model(reg_models, entry)
          /\ Save(reg_models', ok)
          /\ reg_call' = [op |-> "add_model", id |-> entry.id, entries |-> <<entry>>,
                          passed |-> {}, ok |-> ok,
                          dropped |-> Dropped(reg_models, reg_models'), err |-> ""]
    /\ UNCHANGED <<reg_disk, reg_progress>>

\* registry.remove_model(id)
RemoveModel(id) ==
    /\ RegistryLive
    /\ \E ok \in BOOLEAN :
          /\ reg_models' = remove_model(reg_models, id)
          /\ Save(reg_models', ok)
          /\ reg_call' = [op |-> "remove_model", id |-> id, entries |-> <<>>,
                          passed |-> {}, ok |-> ok,
                          dropped |-> Dropped(reg_models, reg_models'), err |-> ""]
    /\ UNCHANGED <<reg_disk, reg_progress>>

\* registry.update_model_settings(id, settings)
UpdateModelSettings(id, settings) ==
    /\ RegistryLive
    /\ \E ok \in BOOLEAN, u \in {update_model_settings(reg_models, id, settings)} :
          /\ reg_models' = u.models
          /\ IF u.found THEN Save(reg_models', ok) ELSE UNCHANGED <<reg_file, reg_failures>>
          /\ reg_call' = [op |-> "update_model_settings", id |-> id, entries |-> <<>>,
                          passed |-> {}, ok |-> u.found /\ ok,
                          dropped |-> Dropped(reg_models, reg_models'), err |-> ""]
    /\ UNCHANGED <<reg_disk, reg_progress>>

\* sync_with_featured that tells its caller when the save failed
SyncWithFeatured_ReportsSaveError(featured_entries) ==
    /\ RegistryLive
    /\ \E ok \in BOOLEAN, s \in {sync_with_featured(reg_models, featured_entries)} :
          /\ reg_models' = s.models
          /\ IF s.changed THEN Save(reg_models', ok) ELSE UNCHANGED <<reg_file, reg_failures>>
          /\ reg_call' = [op |-> "sync_with_featured", id |-> <<>>,
                          entries |-> <<>>,
                          passed |-> {featured_entries[i].id : i \in 1..Len(featured_entries)},
                          ok |-> ~s.changed \/ ok,
                          dropped |-> Dropped(reg_models, reg_models'), err |-> ""]
    /\ UNCHANGED <<reg_disk, reg_progress>>

\* registry.sync_with_featured(entries_to_add), as
\* ensure_featured_models_in_registry calls it
SyncWithFeatured(featured_entries) ==
    /\ RegistryLive
    /\ \E ok \in BOOLEAN, s \in {sync_with_featured(reg_models, featured_entries)} :
          /\ reg_models' = s.models
          /\ IF s.changed THEN Save(reg_models', ok) ELSE UNCHANGED <<reg_file, reg_failures>>
          /\ reg_call' = [op |-> "sync_with_featured", id |-> <<>>,
                          entries |-> <<>>,
                          passed |-> {featured_entries[i].id : i \in 1..Len(featured_entries)},
                          ok |-> TRUE,
                          dropped |-> Dropped(reg_models, reg_models'), err |-> ""]
    /\ UNCHANGED <<reg_disk, reg_progress>>

\* download_hf_model: add the entry, then start the download; an error of
\* add_model ends the request before the download starts
DownloadHfModel(spec) ==
    /\ RegistryLive
    /\ parse_model_spec(spec).ok
    /\ \E ok \in BOOLEAN, entry \in {EntryOf(spec, "default")} :
          /\ reg_models' = add_model(reg_models, entry)
          /\ Save(reg_models', ok)
          /\ reg_progress' = IF ok
                             THEN [reg_progress EXCEPT ![DownloadId(entry.id)] = "Downloading"]
                             ELSE reg_progress
          /\ reg_call' = [op |-> "download_hf_model", id |-> entry.id,
                          entries |-> <<>>, passed |-> {}, ok |-> ok,
                          dropped |-> Dropped(reg_models, reg_models'), err |-> ""]
    /\ UNCHANGED reg_disk

\* delete_local_model that removes the entry of every model, featured or not
DeleteLocalModel_RemovesAlways(id) ==
    /\ RegistryLive
    /\ has_model(reg_models, id)
    /\ reg_disk' = reg_disk \ {get_model(reg_models, id)[1].local_path}
    /\ \E ok \in BOOLEAN :
          /\ reg_models' = remove_model(reg_models, id)
          /\ Save(reg_models', ok)
          /\ reg_call' = [op |-> "delete_local_model", id |-> id, entries |-> <<>>,
                          passed |-> {}, ok |-> ok,
                          dropped |-> Dropped(reg_models, reg_models'), err |-> ""]
    /\ UNCHANGED reg_progress

\* delete_local_model: remove the file (an error of remove_file ends the
\* call), then remove the entry of a model that is not featured
DeleteLocalModel(id) ==
    /\ RegistryLive
    /\ has_model(reg_models, id)
    /\ \E local_path \in {get_model(reg_models, id)[1].local_path} :
          \/ /\ local_path \in reg_disk
             /\ reg_call' = [op |-> "delete_local_model", id |-> id, entries |-> <<>>,
                             passed |-> {}, ok |-> FALSE, dropped |-> {}, err |-> ""]
             /\ UNCHANGED <<reg_models, reg_file, reg_failures, reg_disk>>
          \/ /\ reg_disk' = reg_disk \ {local_path}
             /\ \E ok \in BOOLEAN :
                   /\ reg_models' = IF is_featured_model(id) THEN reg_models
                                    ELSE remove_model(reg_models, id)
                   /\ IF is_featured_model(id) THEN UNCHANGED <<reg_file, reg_failures>>
                      ELSE Save(reg_models', ok)
                   /\ reg_call' = [op |-> "delete_local_model", id |-> id, entries |-> <<>>,
                                   passed |-> {}, ok |-> is_featured_model(id) \/ ok,
                                   dropped |-> Dropped(reg_models, reg_models'), err |-> ""]
    /\ UNCHANGED reg_progress

\* stream(): resolve_model_path, then, unless the slot already holds the
\* model, load_model_sync up to the test of the weight file
StreamResolve(id, resident) ==
    /\ RegistryLive
    /\ reg_call' = [op |-> "stream", id |-> id, entries |-> <<>>, passed |-> {},
                    dropped |-> {},
                    ok |-> /\ has_model(reg_models, id)
                           /\ resident \/ is_downloaded(get_model(reg_models, id)[1]),
                    err |-> IF ~has_model(reg_models, id) THEN "ExecutionError"
                            ELSE IF resident THEN ""
                            ELSE IF ~is_downloaded(get_model(reg_models, id)[1])
                                 THEN "ExecutionError"
                            ELSE ""]
    /\ UNCHANGED <<reg_models, reg_file, reg_failures, reg_disk, reg_progress>>

\* a running download ends: Completed with the file in place, or Failed
DownloadEnds(entry, status) ==
    /\ RegistryLive
    /\ reg_progress[DownloadId(entry.id)] = "Downloading"
    /\ reg_progress' = [reg_progress EXCEPT ![DownloadId(entry.id)] = status]
    /\ reg_disk' = IF status = "Completed" THEN reg_disk \cup {entry.local_path}
                   ELSE reg_disk
    /\ reg_call' = NoCall
    /\ UNCHANGED <<reg_models, reg_file, reg_failures>>

\* cancel_local_model_download
CancelDownload(id) ==
    /\ RegistryLive
    /\ reg_progress[DownloadId(id)] = "Downloading"
    /\ reg_progress' = [reg_progress EXCEPT ![DownloadId(id)] = "Cancelled"]
    /\ reg_call' = NoCall
    /\ UNCHANGED <<reg_models, reg_file, reg_failures, reg_disk>>

\* a model file is removed from the models directory
FileVanishes(path) ==
    /\ RegistryLive
    /\ path \in reg_disk
    /\ reg_disk' = reg_disk \ {path}
    /\ reg_call' = NoCall
    /\ UNCHANGED <<reg_models, reg_file, reg_failures, reg_progress>>

\* the lists of featured entries a sync is passed
RECURSIVE FeaturedLists(_)
FeaturedLists(k) ==
    IF k = 0 THEN {<<>>}
    ELSE FeaturedLists(k - 1)
            \cup {Append(l, e) : l \in FeaturedLists(k - 1), e \in FeaturedEntries}

(***************************************************************************)
(* inference_engine.rs: context sizing, the pre-flight check and the       *)
(* prefill of the prompt, as both generate_with_*_tools run them.          *)
(***************************************************************************)
CtxStep == 256
MaxCtxSteps == 4

min_generation_headroom == 512

\* Option<usize>: None is the empty sequence, Some(n) is <<n>>
None == <<>>
Some(n) == <<n>>

\* token counts and sizes the inputs are drawn from
CtxSizes == {k * CtxStep : k \in 0..MaxCtxSteps}
CtxOptions(sizes) == {None} \cup {Some(n) : n \in sizes}

\* context_cap that does not clamp by the memory estimate
context_cap_NoMemoryClamp(context_size, context_limit, n_ctx_train, memory_max_ctx) ==
    IF context_size # None THEN context_size[1]
    ELSE IF context_limit > 0 THEN context_limit ELSE n_ctx_train

context_cap(context_size, context_limit, n_ctx_train, memory_max_ctx) ==
    IF context_size # None THEN context_size[1]
    ELSE LET limit == IF context_limit > 0 THEN context_limit ELSE n_ctx_train
         IN  IF memory_max_ctx # None /\ memory_max_ctx[1] < limit
             THEN memory_max_ctx[1]
             ELSE limit

effective_context_size(prompt_token_count, context_size, context_limit, n_ctx_train, memory_max_ctx) ==
    LET limit == context_cap(context_size, context_limit, n_ctx_train, memory_max_ctx)
        needed == prompt_token_count + min_generation_headroom
    IN  Min(needed, limit)

\* validate_and_compute_context without the check against the memory estimate
validate_and_compute_context_NoPreflight(prompt_token_count, context_limit, context_size, n_ctx_train, memory_max_ctx) ==
    [ok |-> TRUE, err |-> "",
     effective_ctx |-> effective_context_size(prompt_token_count, context_size,
                           context_limit, n_ctx_train, memory_max_ctx)]

validate_and_compute_context(prompt_token_count, context_limit, context_size, n_ctx_train, memory_max_ctx) ==
    LET effective_ctx == effective_context_size(prompt_token_count, context_size,
                             context_limit, n_ctx_train, memory_max_ctx)
    IN  IF memory_max_ctx # None /\ prompt_token_count > memory_max_ctx[1]
        THEN [ok |-> FALSE, err |-> "ContextLengthExceeded", effective_ctx |-> effective_ctx]
        ELSE [ok |-> TRUE, err |-> "", effective_ctx |-> effective_ctx]

\* the tool lists a call is made with
ToolLists == {{}, {SHELL_TOOL}, {SHELL_TOOL, CODE_EXECUTION_TOOL}}

\* build_emulator_tool_description(tools, code_mode_enabled): the block
\* that describes the tools, by what it depends on
build_emulator_tool_description(tools, code_enabled) ==
    [tool_desc |-> IF code_enabled
                   THEN {t \in tools : t # CODE_EXECUTION_TOOL}
                   ELSE {},
     with_code |-> code_enabled]

VARIABLES
    cx_tokens,      \* tokens.len(), the prompt token count
    cx_size,        \* settings.context_size
    cx_limit,       \* ctx.context_limit
    cx_train,       \* loaded.model.n_ctx_train()
    cx_mem,         \* estimate_max_context_for_memory(..)
    cx_batch,       \* ctx.n_batch()
    cx_tools,       \* stream()'s tools, by name
    cx_native,      \* settings.native_tool_calling
    cx_emulated,    \* use_emulator
    cx_system,      \* the content of the system chat message, in parts
    cx_path,        \* the generate function the worker called
    cx_pc,          \* where the call is
    cx_err,         \* the error kind it returned, "" if none
    cx_effective,   \* effective_ctx as computed
    cx_n_ctx,       \* n_ctx of the llama context created, 0 before
    cx_decoded,     \* prompt tokens decoded into it
    cx_validated    \* validate_and_compute_context has returned

\* the arguments and the model's figures: no step changes them
cx_inputs == <<cx_tokens, cx_size, cx_limit, cx_train, cx_mem, cx_batch,
               cx_tools, cx_native>>

cvars == <<cx_inputs, cx_emulated, cx_system, cx_path, cx_pc, cx_err,
           cx_effective, cx_n_ctx, cx_decoded, cx_validated>>

InitContextIdle ==
    /\ cx_tokens = 0
    /\ cx_size = None
    /\ cx_limit = 0
    /\ cx_train = CtxStep
    /\ cx_mem = None
    /\ cx_batch = CtxStep
    /\ cx_tools = {}
    /\ cx_native = FALSE
    /\ cx_emulated = FALSE
    /\ cx_system = <<>>
    /\ cx_path = "none"
    /\ cx_pc = "idle"
    /\ cx_err = ""
    /\ cx_effective = 0
    /\ cx_n_ctx = 0
    /\ cx_decoded = 0
    /\ cx_validated = FALSE

\* a stream() call whose model is loaded, about to choose its tool path
InitContext ==
    /\ cx_tokens \in CtxSizes
    /\ cx_size \in CtxOptions(CtxSizes \ {0})
    /\ cx_limit \in CtxSizes
    /\ cx_train \in CtxSizes \ {0}
    /\ cx_mem \in CtxOptions(CtxSizes)
    /\ cx_batch \in {CtxStep, MaxCtxSteps * CtxStep}
    /\ cx_tools \in ToolLists
    /\ cx_native \in BOOLEAN
    /\ cx_emulated = FALSE
    /\ cx_system = <<>>
    /\ cx_path = "none"
    /\ cx_pc = "stream"
    /\ cx_err = ""
    /\ cx_effective = 0
    /\ cx_n_ctx = 0
    /\ cx_decoded = 0
    /\ cx_validated = FALSE

CtxFail(err) ==
    /\ cx_pc' = "failed"
    /\ cx_err' = err

\* stream() that takes the emulator path whenever the model has no native
\* tool calling, also for a call without tools
CtxSelectPath_IgnoresEmptyTools ==
    /\ cx_pc = "stream"
    /\ cx_emulated' = ~cx_native
    /\ cx_system' = IF cx_emulated'
                    THEN <<"load_tiny_model_prompt",
                           build_emulator_tool_description(cx_tools,
                               CODE_EXECUTION_TOOL \in cx_tools)>>
                    ELSE <<"system">>
    /\ cx_pc' = "prompt"
    /\ UNCHANGED <<cx_inputs, cx_path, cx_err, cx_effective, cx_n_ctx, cx_decoded,
                   cx_validated>>

\* stream(): use_emulator, the system prompt and the system chat message
\* (LlamaChatMessage::new may fail: stream() returns the error)
CtxSelectPath ==
    /\ cx_pc = "stream"
    /\ \E emulate \in {~cx_native /\ cx_tools # {}} :
       \E system_prompt \in {IF emulate THEN "load_tiny_model_prompt" ELSE "system"} :
       \E code_enabled \in {CODE_EXECUTION_TOOL \in cx_tools} :
          /\ cx_emulated' = emulate
          /\ \/ /\ cx_system' =
                      IF emulate /\ cx_tools # {}
                      THEN <<system_prompt,
                             build_emulator_tool_description(cx_tools, code_enabled)>>
                      ELSE <<system_prompt>>
                /\ cx_pc' = "prompt"
                /\ UNCHANGED cx_err
             \/ CtxFail("ExecutionError") /\ UNCHANGED cx_system
    /\ UNCHANGED <<cx_inputs, cx_path, cx_effective, cx_n_ctx, cx_decoded,
                   cx_validated>>

\* the worker calls generate_with_native_tools: apply the chat template,
\* tokenize the prompt
CtxNativePrompt ==
    /\ cx_pc = "prompt"
    /\ ~cx_emulated
    /\ cx_path' = "generate_with_native_tools"
    /\ \/ cx_pc' = "validate" /\ UNCHANGED cx_err
       \/ CtxFail("ExecutionError")
    /\ UNCHANGED <<cx_inputs, cx_emulated, cx_system, cx_effective, cx_n_ctx,
                   cx_decoded, cx_validated>>

\* the worker calls generate_with_emulated_tools: apply the chat template,
\* tokenize the prompt
CtxEmulatedPrompt ==
    /\ cx_pc = "prompt"
    /\ cx_emulated
    /\ cx_path' = "generate_with_emulated_tools"
    /\ \/ cx_pc' = "validate" /\ UNCHANGED cx_err
       \/ CtxFail("ExecutionError")
    /\ UNCHANGED <<cx_inputs, cx_emulated, cx_system, cx_effective, cx_n_ctx,
                   cx_decoded, cx_validated>>

\* validate_and_compute_context(..)?
CtxValidate ==
    /\ cx_pc = "validate"
    /\ \E r \in {validate_and_compute_context(cx_tokens, cx_limit, cx_size,
                                               cx_train, cx_mem)} :
          /\ cx_effective' = r.effective_ctx
          /\ IF r.ok THEN cx_pc' = "create" /\ UNCHANGED cx_err
             ELSE CtxFail(r.err)
    /\ cx_validated' = TRUE
    /\ UNCHANGED <<cx_inputs, cx_emulated, cx_system, cx_path, cx_n_ctx, cx_decoded>>

\* create_and_prefill_context: model.new_context with n_ctx = effective_ctx
\* (NonZeroU32::new(0) is None: the context then takes the training size)
CtxCreate ==
    /\ cx_pc = "create"
    /\ \/ /\ cx_n_ctx' = IF cx_effective = 0 THEN cx_train ELSE cx_effective
          /\ cx_pc' = IF cx_tokens = 0 THEN "ready" ELSE "prefill"
          /\ UNCHANGED cx_err
       \/ CtxFail("ExecutionError") /\ UNCHANGED cx_n_ctx
    /\ UNCHANGED <<cx_inputs, cx_emulated, cx_system, cx_path, cx_effective,
                   cx_decoded, cx_validated>>

\* create_and_prefill_context: ctx.decode of the next chunk of at most
\* n_batch prompt tokens; a chunk that does not fit the context fails
CtxDecode ==
    /\ cx_pc = "prefill"
    /\ \E chunk \in {Min(cx_batch, cx_tokens - cx_decoded)} :
          \/ /\ cx_decoded + chunk <= cx_n_ctx
             /\ cx_decoded' = cx_decoded + chunk
             /\ cx_pc' = IF cx_decoded' = cx_tokens THEN "ready" ELSE "prefill"
             /\ UNCHANGED cx_err
          \/ CtxFail("ExecutionError") /\ UNCHANGED cx_decoded
    /\ UNCHANGED <<cx_inputs, cx_emulated, cx_system, cx_path, cx_effective,
                   cx_n_ctx, cx_validated>>
(***************************************************************************)
(* inference_engine.rs: generation_loop on its own, for every context      *)
(* size, prompt length and max_output_tokens setting.                      *)
(***************************************************************************)
\* largest context size, prompt length and max_output_tokens, in tokens
MaxLoopTokens == 3

\* usize::saturating_sub
saturating_sub(a, b) == IF a >= b THEN a - b ELSE 0

\* max_output that forgets the max_output_tokens setting
max_output_IgnoresSetting(max_output_tokens, effective_ctx, prompt_token_count) ==
    saturating_sub(effective_ctx, prompt_token_count)

\* max_output of generation_loop
max_output(max_output_tokens, effective_ctx, prompt_token_count) ==
    IF max_output_tokens # None
    THEN Min(saturating_sub(effective_ctx, prompt_token_count), max_output_tokens[1])
    ELSE saturating_sub(effective_ctx, prompt_token_count)

VARIABLES
    gl_effective_ctx,       \* effective_ctx
    gl_prompt_token_count,  \* prompt_token_count
    gl_max_output_tokens,   \* settings.max_output_tokens
    gl_pc,                  \* where the loop is
    gl_iter,                \* iterations of the for loop completed
    gl_output_token_count,  \* output_token_count
    gl_end                  \* why the loop ended ("" while it runs)

lvars == <<gl_effective_ctx, gl_prompt_token_count, gl_max_output_tokens,
           gl_pc, gl_iter, gl_output_token_count, gl_end>>

InitLoopIdle ==
    /\ gl_effective_ctx = 0
    /\ gl_prompt_token_count = 0
    /\ gl_max_output_tokens = None
    /\ gl_pc = "idle"
    /\ gl_iter = 0
    /\ gl_output_token_count = 0
    /\ gl_end = ""

\* generation_loop is entered: output_token_count = 0
InitLoop ==
    /\ gl_effective_ctx \in 0..MaxLoopTokens
    /\ gl_prompt_token_count \in 0..MaxLoopTokens
    /\ gl_max_output_tokens \in {None} \cup {Some(n) : n \in 0..MaxLoopTokens}
    /\ gl_pc = "sample"
    /\ gl_iter = 0
    /\ gl_output_token_count = 0
    /\ gl_end = ""

\* the loop returns or fails
LoopEnds(why) ==
    /\ gl_pc' = IF why = "error" THEN "failed" ELSE "returned"
    /\ gl_end' = why

\* the range 0..max_output is exhausted: Ok(output_token_count)
LoopExhausted ==
    /\ gl_pc = "sample"
    /\ gl_iter >= max_output(gl_max_output_tokens, gl_effective_ctx,
                             gl_prompt_token_count)
    /\ LoopEnds("exhausted")
    /\ UNCHANGED <<gl_effective_ctx, gl_prompt_token_count,
                   gl_max_output_tokens, gl_iter, gl_output_token_count>>

\* sampler.sample and accept; break on an end-of-generation token, else
\* output_token_count += 1 and token_to_piece, which may fail; an empty
\* piece skips the callback
LoopSample ==
    /\ gl_pc = "sample"
    /\ gl_iter < max_output(gl_max_output_tokens, gl_effective_ctx,
                            gl_prompt_token_count)
    /\ \/ LoopEnds("eog") /\ UNCHANGED gl_output_token_count
       \/ /\ gl_output_token_count' = gl_output_token_count + 1
          /\ \/ LoopEnds("error")
             \/ gl_pc' \in {"callback", "decode"} /\ UNCHANGED gl_end
    /\ UNCHANGED <<gl_effective_ctx, gl_prompt_token_count,
                   gl_max_output_tokens, gl_iter>>

\* on_piece(&piece)?: an error, TokenAction::Stop or TokenAction::Continue
LoopCallback ==
    /\ gl_pc = "callback"
    /\ \/ LoopEnds("error")
       \/ LoopEnds("stop")
       \/ gl_pc' = "decode" /\ UNCHANGED gl_end
    /\ UNCHANGED <<gl_effective_ctx, gl_prompt_token_count,
                   gl_max_output_tokens, gl_iter, gl_output_token_count>>

\* LlamaBatch::get_one and ctx.decode, which may fail; then the next
\* iteration
LoopDecode ==
    /\ gl_pc = "decode"
    /\ \/ LoopEnds("error") /\ UNCHANGED gl_iter
       \/ gl_pc' = "sample" /\ gl_iter' = gl_iter + 1 /\ UNCHANGED gl_end
    /\ UNCHANGED <<gl_effective_ctx, gl_prompt_token_count,
                   gl_max_output_tokens, gl_output_token_count>>
(***************************************************************************)
(* local_model_registry.rs: several OS processes on one models directory.  *)
(* Each process loads the registry once (get_registry), keeps it in        *)
(* memory and saves it after every mutation; registry.json, the sidecar    *)
(* lock file and the temp files are shared.  A registry is followed here   *)
(* as the set of the ids of its entries.                                   *)
(***************************************************************************)
\* the processes that use the models directory
NumProcs == 2
Procs == 1..NumProcs

\* a file: whether it exists, the registry it was written from, and
\* whether all of its bytes are there
NoFile == [exists |-> FALSE, models |-> {}, complete |-> TRUE]
FileOf(models, complete) == [exists |-> TRUE, models |-> models, complete |-> complete]

\* what serde_json::from_str gives for the contents read: the registry, or
\* no registry when the bytes are not all there
from_str(contents) ==
    IF contents.complete THEN [ok |-> TRUE, models |-> contents.models]
    ELSE [ok |-> FALSE, models |-> {}]

VARIABLES
    fs_file,      \* models/registry.json
    fs_tmp,       \* per process: its NamedTempFile
    fs_lock,      \* per process: the flock it holds on registry.json.lock
    fs_pc,        \* per process: where it is in load() or save()
    fs_mem,       \* per process: REGISTRY, the registry in memory
    fs_contents,  \* per process: what read_to_string returned
    fs_entry,     \* per process: the id of the entry add_model was passed
    fs_result,    \* per process: how its last load() ended
    fs_seen,      \* per process: the contents registry.json had during its load()
    fs_saved,     \* per process: the registry its last save() renamed into place
    fs_added      \* ids added by an add_model call that returned Ok

fvars == <<fs_file, fs_tmp, fs_lock, fs_pc, fs_mem, fs_contents, fs_entry, fs_result,
           fs_seen, fs_saved, fs_added>>

InitFileIdle ==
    /\ fs_file = NoFile
    /\ fs_tmp = [p \in Procs |-> NoFile]
    /\ fs_lock = [p \in Procs |-> "none"]
    /\ fs_pc = [p \in Procs |-> "off"]
    /\ fs_mem = [p \in Procs |-> {}]
    /\ fs_contents = [p \in Procs |-> NoFile]
    /\ fs_entry = [p \in Procs |-> <<>>]
    /\ fs_result = [p \in Procs |-> "none"]
    /\ fs_seen = [p \in Procs |-> {}]
    /\ fs_saved = [p \in Procs |-> <<>>]
    /\ fs_added = {}

\* no registry file yet, no process has touched the registry
InitFile ==
    /\ fs_file = NoFile
    /\ fs_tmp = [p \in Procs |-> NoFile]
    /\ fs_lock = [p \in Procs |-> "none"]
    /\ fs_pc = [p \in Procs |-> "down"]
    /\ fs_mem = [p \in Procs |-> {}]
    /\ fs_contents = [p \in Procs |-> NoFile]
    /\ fs_entry = [p \in Procs |-> <<>>]
    /\ fs_result = [p \in Procs |-> "none"]
    /\ fs_seen = [p \in Procs |-> {}]
    /\ fs_saved = [p \in Procs |-> <<>>]
    /\ fs_added = {}

\* the processes inside load()
Loading == {p \in Procs : fs_pc[p] \in {"l_lock", "l_read", "l_unlock"}}

\* fs2 lock_shared returns: no other process holds the exclusive lock
MayLockShared(p) == \A q \in Procs \ {p} : fs_lock[q] # "exclusive"

\* fs2 lock_exclusive returns: no other process holds a lock
MayLockExclusive(p) == \A q \in Procs \ {p} : fs_lock[q] = "none"

\* get_registry's first call: load() begins; without a registry.json it
\* returns the default registry
LoadStart(p) ==
    /\ fs_pc[p] = "down"
    /\ fs_seen' = [fs_seen EXCEPT ![p] = {fs_file}]
    /\ IF fs_file.exists
       THEN /\ fs_pc' = [fs_pc EXCEPT ![p] = "l_lock"]
            /\ UNCHANGED <<fs_mem, fs_result>>
       ELSE /\ fs_pc' = [fs_pc EXCEPT ![p] = "idle"]
            /\ fs_mem' = [fs_mem EXCEPT ![p] = {}]
            /\ fs_result' = [fs_result EXCEPT ![p] = "registry"]
    /\ UNCHANGED <<fs_file, fs_tmp, fs_lock, fs_contents, fs_saved, fs_added,
                   fs_entry>>

\* File::create(&lock_path) and lock_shared
LoadLock(p) ==
    /\ fs_pc[p] = "l_lock"
    /\ MayLockShared(p)
    /\ fs_lock' = [fs_lock EXCEPT ![p] = "shared"]
    /\ fs_pc' = [fs_pc EXCEPT ![p] = "l_read"]
    /\ UNCHANGED <<fs_file, fs_tmp, fs_mem, fs_contents, fs_result, fs_seen,
                   fs_saved, fs_added, fs_entry>>

\* read_to_string(&path)
LoadRead(p) ==
    /\ fs_pc[p] = "l_read"
    /\ fs_contents' = [fs_contents EXCEPT ![p] = fs_file]
    /\ fs_pc' = [fs_pc EXCEPT ![p] = "l_unlock"]
    /\ UNCHANGED <<fs_file, fs_tmp, fs_lock, fs_mem, fs_result, fs_seen,
                   fs_saved, fs_added, fs_entry>>

\* unlock and serde_json::from_str; get_registry keeps the registry, or the
\* default one when load() returned an error
LoadUnlock(p) ==
    /\ fs_pc[p] = "l_unlock"
    /\ fs_lock' = [fs_lock EXCEPT ![p] = "none"]
    /\ fs_mem' = [fs_mem EXCEPT ![p] = from_str(fs_contents[p]).models]
    /\ fs_result' = [fs_result EXCEPT ![p] =
                        IF from_str(fs_contents[p]).ok THEN "registry"
                        ELSE "parse_error"]
    /\ fs_pc' = [fs_pc EXCEPT ![p] = "idle"]
    /\ fs_contents' = [fs_contents EXCEPT ![p] = NoFile]
    /\ fs_seen' = [fs_seen EXCEPT ![p] = {}]
    /\ UNCHANGED <<fs_file, fs_tmp, fs_saved, fs_added, fs_entry>>

\* an I/O error inside load() (File::create, lock_shared, read_to_string,
\* unlock): the lock file is closed, get_registry takes the default registry
LoadFails(p) ==
    /\ p \in Loading
    /\ fs_lock' = [fs_lock EXCEPT ![p] = "none"]
    /\ fs_mem' = [fs_mem EXCEPT ![p] = {}]
    /\ fs_result' = [fs_result EXCEPT ![p] = "io_error"]
    /\ fs_pc' = [fs_pc EXCEPT ![p] = "idle"]
    /\ fs_contents' = [fs_contents EXCEPT ![p] = NoFile]
    /\ fs_seen' = [fs_seen EXCEPT ![p] = {}]
    /\ UNCHANGED <<fs_file, fs_tmp, fs_saved, fs_added, fs_entry>>

\* registry.add_model(entry) up to its save(): the entry is in memory
FileAddModel(p, id) ==
    /\ fs_pc[p] = "idle"
    /\ fs_mem' = [fs_mem EXCEPT ![p] = @ \cup {id}]
    /\ fs_pc' = [fs_pc EXCEPT ![p] = "s_lock"]
    /\ fs_entry' = [fs_entry EXCEPT ![p] = <<id>>]
    /\ UNCHANGED <<fs_file, fs_tmp, fs_lock, fs_contents, fs_result, fs_seen,
                   fs_saved, fs_added>>

\* save(): create_dir_all, File::create(&lock_path), lock_exclusive
SaveLock(p) ==
    /\ fs_pc[p] = "s_lock"
    /\ MayLockExclusive(p)
    /\ fs_lock' = [fs_lock EXCEPT ![p] = "exclusive"]
    /\ fs_pc' = [fs_pc EXCEPT ![p] = "s_tmp"]
    /\ UNCHANGED <<fs_file, fs_tmp, fs_mem, fs_contents, fs_result, fs_seen,
                   fs_saved, fs_added, fs_entry>>

\* NamedTempFile::new_in(parent) and the first bytes of write_all
SaveWrite(p) ==
    /\ fs_pc[p] = "s_tmp"
    /\ fs_tmp' = [fs_tmp EXCEPT ![p] = FileOf(fs_mem[p], FALSE)]
    /\ fs_pc' = [fs_pc EXCEPT ![p] = "s_write"]
    /\ UNCHANGED <<fs_file, fs_lock, fs_mem, fs_contents, fs_result, fs_seen,
                   fs_saved, fs_added, fs_entry>>

\* the rest of write_all
SaveWriteRest(p) ==
    /\ fs_pc[p] = "s_write"
    /\ fs_tmp' = [fs_tmp EXCEPT ![p] = FileOf(fs_mem[p], TRUE)]
    /\ fs_pc' = [fs_pc EXCEPT ![p] = "s_persist"]
    /\ UNCHANGED <<fs_file, fs_lock, fs_mem, fs_contents, fs_result, fs_seen,
                   fs_saved, fs_added, fs_entry>>

\* save that writes registry.json in place instead of renaming a temp file
SavePersist_InPlace(p) ==
    /\ fs_pc[p] = "s_persist"
    /\ \E complete \in BOOLEAN :
          /\ fs_file' = FileOf(fs_mem[p], complete)
          /\ fs_pc' = [fs_pc EXCEPT ![p] = IF complete THEN "s_unlock" ELSE "s_persist"]
    /\ fs_tmp' = [fs_tmp EXCEPT ![p] = NoFile]
    /\ fs_seen' = [q \in Procs |-> IF q \in Loading THEN fs_seen[q] \cup {fs_file'}
                                   ELSE fs_seen[q]]
    /\ fs_saved' = [fs_saved EXCEPT ![p] = <<fs_mem[p]>>]
    /\ UNCHANGED <<fs_lock, fs_mem, fs_contents, fs_result, fs_added, fs_entry>>

\* tmp.persist(&path): the temp file is renamed over registry.json
SavePersist(p) ==
    /\ fs_pc[p] = "s_persist"
    /\ fs_file' = fs_tmp[p]
    /\ fs_tmp' = [fs_tmp EXCEPT ![p] = NoFile]
    /\ fs_seen' = [q \in Procs |-> IF q \in Loading THEN fs_seen[q] \cup {fs_file'}
                                   ELSE fs_seen[q]]
    /\ fs_pc' = [fs_pc EXCEPT ![p] = "s_unlock"]
    /\ fs_saved' = [fs_saved EXCEPT ![p] = <<fs_mem[p]>>]
    /\ UNCHANGED <<fs_lock, fs_mem, fs_contents, fs_result, fs_added, fs_entry>>

\* unlock; save() and add_model return Ok(()), or the error of the unlock
SaveUnlock(p) ==
    /\ fs_pc[p] = "s_unlock"
    /\ fs_lock' = [fs_lock EXCEPT ![p] = "none"]
    /\ \E ok \in BOOLEAN :
          fs_added' = IF ok THEN fs_added \cup {fs_entry[p][1]} ELSE fs_added
    /\ fs_entry' = [fs_entry EXCEPT ![p] = <<>>]
    /\ fs_pc' = [fs_pc EXCEPT ![p] = "idle"]
    /\ UNCHANGED <<fs_file, fs_tmp, fs_mem, fs_contents, fs_result, fs_seen,
                   fs_saved>>

\* an I/O error inside save() before the rename has happened: the `?`
\* returns it, the temp file is removed and the lock file closed as they
\* are dropped; the entry stays in memory
SaveFails(p) ==
    /\ fs_pc[p] \in {"s_lock", "s_tmp", "s_write", "s_persist"}
    /\ fs_lock' = [fs_lock EXCEPT ![p] = "none"]
    /\ fs_tmp' = [fs_tmp EXCEPT ![p] = NoFile]
    /\ fs_entry' = [fs_entry EXCEPT ![p] = <<>>]
    /\ fs_pc' = [fs_pc EXCEPT ![p] = "idle"]
    /\ UNCHANGED <<fs_file, fs_mem, fs_contents, fs_result, fs_seen, fs_saved,
                   fs_added>>

\* the process ends; a later run of it loads the registry anew
ProcessExits(p) ==
    /\ fs_pc[p] = "idle"
    /\ fs_pc' = [fs_pc EXCEPT ![p] = "down"]
    /\ fs_mem' = [fs_mem EXCEPT ![p] = {}]
    /\ UNCHANGED <<fs_file, fs_tmp, fs_lock, fs_contents, fs_result, fs_seen,
                   fs_saved, fs_added, fs_entry>>
(***************************************************************************)
(* inference_native_tools.rs: the choice between the render with the full  *)
(* tool catalog and the render with the compact one.                       *)
(***************************************************************************)
\* what apply_template gives for a catalog: an error, or a prompt with its
\* number of tokens and whether str_to_token accepts it
RenderErr == [ok |-> FALSE, tokens |-> 0, tokenizes |-> FALSE]
Renders ==
    {RenderErr} \cup {[ok |-> TRUE, tokens |-> n, tokenizes |-> b] :
                         n \in CtxSizes \ {0}, b \in BOOLEAN}

\* the values context_cap can give
Caps ==
    {context_cap(s, l, t, m) : s \in CtxOptions(CtxSizes \ {0}), l \in CtxSizes,
                               t \in CtxSizes \ {0}, m \in CtxOptions(CtxSizes)}

\* token_budget without the generation headroom
token_budget_NoHeadroom(cap) == cap

\* token_budget = cap.saturating_sub(min_generation_headroom)
token_budget(cap) == saturating_sub(cap, min_generation_headroom)

\* str_to_token(&r.prompt).map(|t| t.len()).unwrap_or(0)
token_count(r) == IF r.tokenizes THEN r.tokens ELSE 0

VARIABLES
    tp_cap,       \* cap
    tp_full,      \* what apply_template(full_tools_json) gives
    tp_compact,   \* what apply_template(compact_tools) gives
    tp_pc,        \* where generate_with_native_tools is
    tp_renders,   \* calls of apply_template so far
    tp_result,    \* template_result: "full", "compact", "" while there is none
    tp_err        \* the error returned ("" for none)

pvars == <<tp_cap, tp_full, tp_compact, tp_pc, tp_renders, tp_result, tp_err>>

InitTemplateIdle ==
    /\ tp_cap = 0
    /\ tp_full = RenderErr
    /\ tp_compact = RenderErr
    /\ tp_pc = "idle"
    /\ tp_renders = 0
    /\ tp_result = ""
    /\ tp_err = ""

\* generate_with_native_tools is entered
InitTemplate ==
    /\ tp_cap \in Caps
    /\ tp_full \in Renders
    /\ tp_compact \in Renders
    /\ tp_pc = "full"
    /\ tp_renders = 0
    /\ tp_result = ""
    /\ tp_err = ""

\* match apply_template(full_tools_json)
TemplateFull ==
    /\ tp_pc = "full"
    /\ tp_renders' = tp_renders + 1
    /\ tp_pc' = IF tp_full.ok THEN "count" ELSE "retry"
    /\ UNCHANGED <<tp_cap, tp_full, tp_compact, tp_result, tp_err>>

\* Ok(r): the token count of the full render against the budget
TemplateCount ==
    /\ tp_pc = "count"
    /\ IF token_count(tp_full) > token_budget(tp_cap)
       THEN tp_pc' = "compact" /\ UNCHANGED tp_result
       ELSE tp_pc' = "tokenize" /\ tp_result' = "full"
    /\ UNCHANGED <<tp_cap, tp_full, tp_compact, tp_renders, tp_err>>

\* apply_template(compact_tools).unwrap_or(r)
TemplateCompact ==
    /\ tp_pc = "compact"
    /\ tp_renders' = tp_renders + 1
    /\ tp_result' = IF tp_compact.ok THEN "compact" ELSE "full"
    /\ tp_pc' = "tokenize"
    /\ UNCHANGED <<tp_cap, tp_full, tp_compact, tp_err>>

\* Err(_) => apply_template(compact_tools).map_err(..)?
TemplateRetry ==
    /\ tp_pc = "retry"
    /\ tp_renders' = tp_renders + 1
    /\ IF tp_compact.ok
       THEN tp_result' = "compact" /\ tp_pc' = "tokenize" /\ UNCHANGED tp_err
       ELSE /\ tp_err' = "Failed to apply chat template"
            /\ tp_pc' = "failed"
            /\ UNCHANGED tp_result
    /\ UNCHANGED <<tp_cap, tp_full, tp_compact>>

\* str_to_token(&template_result.prompt, AddBos::Never).map_err(..)?
TemplateTokenize ==
    /\ tp_pc = "tokenize"
    /\ IF (IF tp_result = "full" THEN tp_full ELSE tp_compact).tokenizes
       THEN tp_pc' = "validate" /\ UNCHANGED tp_err
       ELSE tp_pc' = "failed" /\ tp_err' = "str_to_token"
    /\ UNCHANGED <<tp_cap, tp_full, tp_compact, tp_renders, tp_result>>
(***************************************************************************)
(* tool_parsing.rs: split_content_and_xml_tool_calls on texts put together *)
(* from a content and a list of <tool_call> blocks.                        *)
(***************************************************************************)
\* blocks in one text, at most
MaxXmlBlocks == 2

XML_FUNCTION_CLOSE == <<"<", "/", "f", "u", "n", "c", "t", "i", "o", "n", ">">>

\* what a block is written from: the format, the name, and the arguments
\* as <<key, text of the value, the value>>
StringValue(bytes) == [k |-> "s", v |-> bytes]
XmlCallShapes ==
    { [format |-> "function", name |-> <<"f", "o", "o">>,
       args |-> << <<<<"x">>, <<"l", "s">>, StringValue(<<"l", "s">>)>> >>],
      [format |-> "function", name |-> <<"b", "a", "z">>,
       args |-> << <<<<"x">>, <<QUOTE, "a", QUOTE>>, StringValue(<<"a">>)>>,
                   <<<<"y">>, <<"l", "s", " ", "-", "l">>, StringValue(<<"l", "s", " ", "-", "l">>)>> >>],
      [format |-> "glm", name |-> <<"d", "e", "v", "e", "l", "o", "p", "e", "r", "_", "_", "s", "h", "e", "l", "l">>,
       args |-> << <<<<"c", "o", "m", "m", "a", "n", "d">>, <<"l", "s", " ", "-", "l">>, StringValue(<<"l", "s", " ", "-", "l">>)>> >>],
      [format |-> "glm", name |-> <<"l", "o", "a", "d">>, args |-> <<>>],
      [format |-> "none", name |-> <<>>, args |-> <<>>] }

\* the parameters or pairs of a block, as text
RECURSIVE WriteArgs(_, _)
WriteArgs(format, args) ==
    IF args = <<>> THEN <<>>
    ELSE (IF format = "function"
          THEN XML_PARAMETER \o Head(args)[1] \o <<">">> \o Head(args)[2]
                 \o XML_PARAMETER_CLOSE \o <<NL>>
          ELSE XML_ARG_KEY \o Head(args)[1] \o XML_ARG_KEY_CLOSE
                 \o XML_ARG_VALUE \o Head(args)[2] \o XML_ARG_VALUE_CLOSE)
         \o WriteArgs(format, Tail(args))

\* the inside of a <tool_call> block, as text
WriteBlock(shape) ==
    CASE shape.format = "function" ->
            <<NL>> \o XML_FUNCTION \o shape.name \o <<">", NL>>
              \o WriteArgs("function", shape.args) \o XML_FUNCTION_CLOSE \o <<NL>>
      [] shape.format = "glm" -> shape.name \o WriteArgs("glm", shape.args)
      [] shape.format = "none" -> <<NL>>

\* the blocks one after the other, each on a line of its own; the last one
\* is closed or not
RECURSIVE WriteBlocks(_, _)
WriteBlocks(shapes, closed) ==
    IF shapes = <<>> THEN <<>>
    ELSE TAG_OPEN \o WriteBlock(Head(shapes))
           \o (IF Tail(shapes) # <<>> THEN TAG_CLOSE \o <<NL>>
               ELSE IF closed THEN TAG_CLOSE ELSE <<>>)
           \o WriteBlocks(Tail(shapes), closed)

\* the call a block is expected to give
CallOf(shape) ==
    [name |-> shape.name,
     args |-> {<<shape.args[i][1], shape.args[i][3]>> : i \in 1..Len(shape.args)}]

\* the lists of at most k blocks
RECURSIVE ShapeLists(_)
ShapeLists(k) ==
    IF k = 0 THEN {<<>>}
    ELSE ShapeLists(k - 1)
           \cup {Append(l, s) : l \in {x \in ShapeLists(k - 1) : Len(x) = k - 1},
                                s \in XmlCallShapes}

\* the contents a text starts with
XmlContents == { <<>>, <<"S", "o", "m", "e", " ", "t", "e", "x", "t">>, <<"S", "o", "m", "e", " ", "t", "e", "x", "t", " ", NL>> }

VARIABLES
    xml_content,   \* the text before the first <tool_call>
    xml_shapes,    \* what the blocks of the text were written from
    xml_closed,    \* the last block ends with </tool_call>
    xml_text,      \* the text
    xml_split,     \* what split_content_and_xml_tool_calls returned
    xml_done       \* it has been called

xvars == <<xml_content, xml_shapes, xml_closed, xml_text, xml_split, xml_done>>

InitXmlIdle ==
    /\ xml_content = <<>>
    /\ xml_shapes = <<>>
    /\ xml_closed = TRUE
    /\ xml_text = <<>>
    /\ xml_split = [found |-> FALSE, content |-> <<>>, calls |-> <<>>, start |-> 0]
    /\ xml_done = TRUE

\* a generated text with its blocks
InitXml ==
    /\ xml_content \in XmlContents
    /\ xml_shapes \in ShapeLists(MaxXmlBlocks)
    /\ xml_closed \in BOOLEAN
    /\ xml_text = xml_content \o WriteBlocks(xml_shapes, xml_closed)
    /\ xml_split = [found |-> FALSE, content |-> <<>>, calls |-> <<>>, start |-> 0]
    /\ xml_done = FALSE

\* split_content_and_xml_tool_calls(&generated_text)
XmlSplit ==
    /\ ~xml_done
    /\ xml_split' = split_content_and_xml_tool_calls(xml_text)
    /\ xml_done' = TRUE
    /\ UNCHANGED <<xml_content, xml_shapes, xml_closed, xml_text>>
(***************************************************************************)
(* Specifications.  Each one follows one part of the program and leaves    *)
(* the variables of the other parts alone.                                 *)
(***************************************************************************)
vars == <<rvars, svars, qvars, tvars, mvars, gvars, cvars, lvars, fvars, pvars, xvars>>

Init == InitRuntime /\ InitStreamIdle /\ InitParserIdle /\ InitTextIdle /\ InitMarkdownIdle /\ InitRegistryIdle /\ InitContextIdle /\ InitLoopIdle /\ InitFileIdle /\ InitTemplateIdle /\ InitXmlIdle

Next ==
    \/ \E p \in Providers : GetOrInitLock(p) /\ UNCHANGED <<svars, qvars, tvars, mvars, gvars, cvars, lvars, fvars, pvars, xvars>>
    \/ \E p \in Providers : GetOrInitBackend(p) /\ UNCHANGED <<svars, qvars, tvars, mvars, gvars, cvars, lvars, fvars, pvars, xvars>>
    \/ \E p \in Providers, m \in Models : GetOrCreateModelSlot(p, m) /\ UNCHANGED <<svars, qvars, tvars, mvars, gvars, cvars, lvars, fvars, pvars, xvars>>
    \/ \E p \in Providers, m \in Models : StreamLock(p, m) /\ UNCHANGED <<svars, qvars, tvars, mvars, gvars, cvars, lvars, fvars, pvars, xvars>>
    \/ \E p \in Providers, m \in Models : StreamEvict(p, m) /\ UNCHANGED <<svars, qvars, tvars, mvars, gvars, cvars, lvars, fvars, pvars, xvars>>
    \/ \E p \in Providers : StreamLoadOk(p) /\ UNCHANGED <<svars, qvars, tvars, mvars, gvars, cvars, lvars, fvars, pvars, xvars>>
    \/ \E p \in Providers : StreamLoadErr(p) /\ UNCHANGED <<svars, qvars, tvars, mvars, gvars, cvars, lvars, fvars, pvars, xvars>>
    \/ \E p \in Providers : StreamSpawn(p) /\ UNCHANGED <<svars, qvars, tvars, mvars, gvars, cvars, lvars, fvars, pvars, xvars>>
    \/ \E p \in Providers : StreamSetupErr(p) /\ UNCHANGED <<svars, qvars, tvars, mvars, gvars, cvars, lvars, fvars, pvars, xvars>>
    \/ \E p \in Providers : WorkerLock(p) /\ UNCHANGED <<svars, qvars, tvars, mvars, gvars, cvars, lvars, fvars, pvars, xvars>>
    \/ \E p \in Providers : WorkerGenerate(p) /\ UNCHANGED <<svars, qvars, tvars, mvars, gvars, cvars, lvars, fvars, pvars, xvars>>
    \/ \E p \in Providers : WorkerReturn(p) /\ UNCHANGED <<svars, qvars, tvars, mvars, gvars, cvars, lvars, fvars, pvars, xvars>>
    \/ \E p \in Providers : WorkerDropRuntime(p) /\ UNCHANGED <<svars, qvars, tvars, mvars, gvars, cvars, lvars, fvars, pvars, xvars>>
    \/ \E p \in Providers : WorkerDropModelsField(p) /\ UNCHANGED <<svars, qvars, tvars, mvars, gvars, cvars, lvars, fvars, pvars, xvars>>
    \/ \E p \in Providers : WorkerDropBackendField(p) /\ UNCHANGED <<svars, qvars, tvars, mvars, gvars, cvars, lvars, fvars, pvars, xvars>>
    \/ \E p \in Providers : WorkerDropSlot(p) /\ UNCHANGED <<svars, qvars, tvars, mvars, gvars, cvars, lvars, fvars, pvars, xvars>>
    \/ \E p \in Providers : ProviderDropRuntime(p) /\ UNCHANGED <<svars, qvars, tvars, mvars, gvars, cvars, lvars, fvars, pvars, xvars>>
    \/ \E p \in Providers : ProviderDropModelsField(p) /\ UNCHANGED <<svars, qvars, tvars, mvars, gvars, cvars, lvars, fvars, pvars, xvars>>
    \/ \E p \in Providers : ProviderDropBackendField(p) /\ UNCHANGED <<svars, qvars, tvars, mvars, gvars, cvars, lvars, fvars, pvars, xvars>>
    \/ \E p \in Providers : ProviderDropSlot(p) /\ UNCHANGED <<svars, qvars, tvars, mvars, gvars, cvars, lvars, fvars, pvars, xvars>>

\* runtime handles, model slots, load-and-evict and the workers' locking
Spec == Init /\ [][Next]_vars

InitWorkerSpawned == InitStream /\ InitParserIdle /\ InitTextIdle /\ InitMarkdownIdle /\ InitRegistryIdle /\ InitContextIdle /\ InitLoopIdle /\ InitFileIdle /\ InitTemplateIdle /\ InitXmlIdle

\* the consumer of the returned stream
ConsumerStep ==
    \/ ConsumerRecv /\ UNCHANGED <<qvars, tvars, mvars, gvars, cvars, lvars, fvars, pvars, xvars>>
    \/ ConsumerEnd /\ UNCHANGED <<qvars, tvars, mvars, gvars, cvars, lvars, fvars, pvars, xvars>>
    \/ ConsumerDrop /\ UNCHANGED <<qvars, tvars, mvars, gvars, cvars, lvars, fvars, pvars, xvars>>

\* the blocking worker of the stream() call
WorkerStep ==
    \/ StreamWorkerLock /\ UNCHANGED <<qvars, tvars, mvars, gvars, cvars, lvars, fvars, pvars, xvars>>
    \/ WorkerNotLoaded /\ UNCHANGED <<qvars, tvars, mvars, gvars, cvars, lvars, fvars, pvars, xvars>>
    \/ GenTemplate /\ UNCHANGED <<qvars, tvars, mvars, gvars, cvars, lvars, fvars, pvars, xvars>>
    \/ GenTokenize /\ UNCHANGED <<qvars, tvars, mvars, gvars, cvars, lvars, fvars, pvars, xvars>>
    \/ GenValidate /\ UNCHANGED <<qvars, tvars, mvars, gvars, cvars, lvars, fvars, pvars, xvars>>
    \/ GenPrefill /\ UNCHANGED <<qvars, tvars, mvars, gvars, cvars, lvars, fvars, pvars, xvars>>
    \/ GenSample /\ UNCHANGED <<qvars, tvars, mvars, gvars, cvars, lvars, fvars, pvars, xvars>>
    \/ GenLoopExhausted /\ UNCHANGED <<qvars, tvars, mvars, gvars, cvars, lvars, fvars, pvars, xvars>>
    \/ GenDecode /\ UNCHANGED <<qvars, tvars, mvars, gvars, cvars, lvars, fvars, pvars, xvars>>
    \/ NativeCallback /\ UNCHANGED <<qvars, tvars, mvars, gvars, cvars, lvars, fvars, pvars, xvars>>
    \/ NativeAfterLoop /\ UNCHANGED <<qvars, tvars, mvars, gvars, cvars, lvars, fvars, pvars, xvars>>
    \/ NativePostSend /\ UNCHANGED <<qvars, tvars, mvars, gvars, cvars, lvars, fvars, pvars, xvars>>
    \/ EmulatorCallback /\ UNCHANGED <<qvars, tvars, mvars, gvars, cvars, lvars, fvars, pvars, xvars>>
    \/ EmulatorSend /\ UNCHANGED <<qvars, tvars, mvars, gvars, cvars, lvars, fvars, pvars, xvars>>
    \/ EmulatorAfterLoop /\ UNCHANGED <<qvars, tvars, mvars, gvars, cvars, lvars, fvars, pvars, xvars>>
    \/ EmulatorFlushSend /\ UNCHANGED <<qvars, tvars, mvars, gvars, cvars, lvars, fvars, pvars, xvars>>
    \/ EmulatorUsage /\ UNCHANGED <<qvars, tvars, mvars, gvars, cvars, lvars, fvars, pvars, xvars>>
    \/ WorkerResultErr /\ UNCHANGED <<qvars, tvars, mvars, gvars, cvars, lvars, fvars, pvars, xvars>>
    \/ StreamWorkerReturn /\ UNCHANGED <<qvars, tvars, mvars, gvars, cvars, lvars, fvars, pvars, xvars>>

StreamStep == WorkerStep \/ ConsumerStep

\* one stream() call from the spawn of its worker on
SpecStream == InitWorkerSpawned /\ [][StreamStep]_vars

\* the worker with the smaller vocabulary
WorkerFew ==
    \/ StreamWorkerLock /\ UNCHANGED <<qvars, tvars, mvars, gvars, cvars, lvars, fvars, pvars, xvars>>
    \/ WorkerNotLoaded /\ UNCHANGED <<qvars, tvars, mvars, gvars, cvars, lvars, fvars, pvars, xvars>>
    \/ GenTemplate /\ UNCHANGED <<qvars, tvars, mvars, gvars, cvars, lvars, fvars, pvars, xvars>>
    \/ GenTokenize /\ UNCHANGED <<qvars, tvars, mvars, gvars, cvars, lvars, fvars, pvars, xvars>>
    \/ GenValidate /\ UNCHANGED <<qvars, tvars, mvars, gvars, cvars, lvars, fvars, pvars, xvars>>
    \/ GenPrefill /\ UNCHANGED <<qvars, tvars, mvars, gvars, cvars, lvars, fvars, pvars, xvars>>
    \/ GenSampleFew /\ UNCHANGED <<qvars, tvars, mvars, gvars, cvars, lvars, fvars, pvars, xvars>>
    \/ GenLoopExhausted /\ UNCHANGED <<qvars, tvars, mvars, gvars, cvars, lvars, fvars, pvars, xvars>>
    \/ GenDecode /\ UNCHANGED <<qvars, tvars, mvars, gvars, cvars, lvars, fvars, pvars, xvars>>
    \/ NativeCallback /\ UNCHANGED <<qvars, tvars, mvars, gvars, cvars, lvars, fvars, pvars, xvars>>
    \/ NativeAfterLoop /\ UNCHANGED <<qvars, tvars, mvars, gvars, cvars, lvars, fvars, pvars, xvars>>
    \/ NativePostSend /\ UNCHANGED <<qvars, tvars, mvars, gvars, cvars, lvars, fvars, pvars, xvars>>
    \/ EmulatorCallback /\ UNCHANGED <<qvars, tvars, mvars, gvars, cvars, lvars, fvars, pvars, xvars>>
    \/ EmulatorSend /\ UNCHANGED <<qvars, tvars, mvars, gvars, cvars, lvars, fvars, pvars, xvars>>
    \/ EmulatorAfterLoop /\ UNCHANGED <<qvars, tvars, mvars, gvars, cvars, lvars, fvars, pvars, xvars>>
    \/ EmulatorFlushSend /\ UNCHANGED <<qvars, tvars, mvars, gvars, cvars, lvars, fvars, pvars, xvars>>
    \/ EmulatorUsage /\ UNCHANGED <<qvars, tvars, mvars, gvars, cvars, lvars, fvars, pvars, xvars>>
    \/ WorkerResultErr /\ UNCHANGED <<qvars, tvars, mvars, gvars, cvars, lvars, fvars, pvars, xvars>>
    \/ StreamWorkerReturn /\ UNCHANGED <<qvars, tvars, mvars, gvars, cvars, lvars, fvars, pvars, xvars>>

StreamStepFew == WorkerFew \/ ConsumerStep

\* the same with a smaller vocabulary and a worker that keeps running: the
\* worker is a thread that runs to its end, each of its steps is taken once
\* it can be; the consumer is free to stall
SpecStreamFair ==
    InitWorkerSpawned /\ [][StreamStepFew]_vars /\ WF_vars(WorkerFew)

InitChunks == InitRuntime /\ InitStreamIdle /\ InitParser /\ InitTextIdle /\ InitMarkdownIdle /\ InitRegistryIdle /\ InitContextIdle /\ InitLoopIdle /\ InitFileIdle /\ InitTemplateIdle /\ InitXmlIdle

ParserStep ==
    \/ ParserFeed /\ UNCHANGED <<rvars, svars, tvars, mvars, gvars, cvars, lvars, fvars, pvars, xvars>>
    \/ ParserFlush /\ UNCHANGED <<rvars, svars, tvars, mvars, gvars, cvars, lvars, fvars, pvars, xvars>>

\* the emulator parser fed a text in chunks
SpecParser == InitChunks /\ [][ParserStep]_vars

InitGenerated == InitRuntime /\ InitStreamIdle /\ InitParserIdle /\ InitText /\ InitMarkdownIdle /\ InitRegistryIdle /\ InitContextIdle /\ InitLoopIdle /\ InitFileIdle /\ InitTemplateIdle /\ InitXmlIdle

TextStep ==
    \/ TextPush /\ UNCHANGED <<rvars, svars, qvars, mvars, gvars, cvars, lvars, fvars, pvars, xvars>>
    \/ TextSplit /\ UNCHANGED <<rvars, svars, qvars, mvars, gvars, cvars, lvars, fvars, pvars, xvars>>

\* a generated text extended piece by piece, then split
SpecText == InitGenerated /\ [][TextStep]_vars

InitStreamed == InitRuntime /\ InitStreamIdle /\ InitParserIdle /\ InitTextIdle /\ InitMarkdown /\ InitRegistryIdle /\ InitContextIdle /\ InitLoopIdle /\ InitFileIdle /\ InitTemplateIdle /\ InitXmlIdle

MarkdownStep ==
    \/ MdPush /\ UNCHANGED <<rvars, svars, qvars, tvars, gvars, cvars, lvars, fvars, pvars, xvars>>
    \/ MdFlush /\ UNCHANGED <<rvars, svars, qvars, tvars, gvars, cvars, lvars, fvars, pvars, xvars>>

\* a markdown text pushed through a MarkdownBuffer in chunks, then flushed
SpecMarkdown == InitStreamed /\ [][MarkdownStep]_vars

InitEmptyRegistry == InitRuntime /\ InitStreamIdle /\ InitParserIdle /\ InitTextIdle /\ InitMarkdownIdle /\ InitRegistry /\ InitContextIdle /\ InitLoopIdle /\ InitFileIdle /\ InitTemplateIdle /\ InitXmlIdle

RegistryStep ==
    \/ \E entry \in Entries : AddModel(entry) /\ UNCHANGED <<rvars, svars, qvars, tvars, mvars, cvars, lvars, fvars, pvars, xvars>>
    \/ \E id \in ModelIds : RemoveModel(id) /\ UNCHANGED <<rvars, svars, qvars, tvars, mvars, cvars, lvars, fvars, pvars, xvars>>
    \/ \E id \in ModelIds, settings \in SettingsValues : UpdateModelSettings(id, settings) /\ UNCHANGED <<rvars, svars, qvars, tvars, mvars, cvars, lvars, fvars, pvars, xvars>>
    \/ \E featured_entries \in FeaturedLists(MaxFeaturedPassed) : SyncWithFeatured(featured_entries) /\ UNCHANGED <<rvars, svars, qvars, tvars, mvars, cvars, lvars, fvars, pvars, xvars>>
    \/ \E spec \in ModelSpecs : DownloadHfModel(spec) /\ UNCHANGED <<rvars, svars, qvars, tvars, mvars, cvars, lvars, fvars, pvars, xvars>>
    \/ \E id \in ModelIds : DeleteLocalModel(id) /\ UNCHANGED <<rvars, svars, qvars, tvars, mvars, cvars, lvars, fvars, pvars, xvars>>
    \/ \E entry \in Entries, status \in {"Completed", "Failed"} : DownloadEnds(entry, status) /\ UNCHANGED <<rvars, svars, qvars, tvars, mvars, cvars, lvars, fvars, pvars, xvars>>
    \/ \E id \in ModelIds : CancelDownload(id) /\ UNCHANGED <<rvars, svars, qvars, tvars, mvars, cvars, lvars, fvars, pvars, xvars>>
    \/ \E path \in {e.local_path : e \in Entries} : FileVanishes(path) /\ UNCHANGED <<rvars, svars, qvars, tvars, mvars, cvars, lvars, fvars, pvars, xvars>>
    \/ \E id \in ModelIds, resident \in BOOLEAN : StreamResolve(id, resident) /\ UNCHANGED <<rvars, svars, qvars, tvars, mvars, cvars, lvars, fvars, pvars, xvars>>

\* the registry from empty on, with the routes that call it, the downloads and the model files
SpecRegistry == InitEmptyRegistry /\ [][RegistryStep]_vars

InitLoaded == InitRuntime /\ InitStreamIdle /\ InitParserIdle /\ InitTextIdle /\ InitMarkdownIdle /\ InitRegistryIdle /\ InitContext /\ InitLoopIdle /\ InitFileIdle /\ InitTemplateIdle /\ InitXmlIdle

ContextStep ==
    \/ CtxSelectPath /\ UNCHANGED <<rvars, svars, qvars, tvars, mvars, gvars, lvars, fvars, pvars, xvars>>
    \/ CtxNativePrompt /\ UNCHANGED <<rvars, svars, qvars, tvars, mvars, gvars, lvars, fvars, pvars, xvars>>
    \/ CtxEmulatedPrompt /\ UNCHANGED <<rvars, svars, qvars, tvars, mvars, gvars, lvars, fvars, pvars, xvars>>
    \/ CtxValidate /\ UNCHANGED <<rvars, svars, qvars, tvars, mvars, gvars, lvars, fvars, pvars, xvars>>
    \/ CtxCreate /\ UNCHANGED <<rvars, svars, qvars, tvars, mvars, gvars, lvars, fvars, pvars, xvars>>
    \/ CtxDecode /\ UNCHANGED <<rvars, svars, qvars, tvars, mvars, gvars, lvars, fvars, pvars, xvars>>

\* one stream() call on a loaded model, from the choice of the tool path to the end of the prefill
SpecContext == InitLoaded /\ [][ContextStep]_vars

InitTrigger == InitRuntime /\ InitStreamIdle /\ InitTriggerOutput /\ InitTextIdle /\ InitMarkdownIdle /\ InitRegistryIdle /\ InitContextIdle /\ InitLoopIdle /\ InitFileIdle /\ InitTemplateIdle /\ InitXmlIdle

TriggerStep ==
    \/ ParserFeed /\ UNCHANGED <<rvars, svars, tvars, mvars, gvars, cvars, lvars, fvars, pvars, xvars>>
    \/ ParserFlush /\ UNCHANGED <<rvars, svars, tvars, mvars, gvars, cvars, lvars, fvars, pvars, xvars>>

\* the emulator parser fed, in chunks, an output that holds one trigger
SpecTrigger == InitTrigger /\ [][TriggerStep]_vars

InitLoopEntered == InitRuntime /\ InitStreamIdle /\ InitParserIdle /\ InitTextIdle /\ InitMarkdownIdle /\ InitRegistryIdle /\ InitContextIdle /\ InitLoop /\ InitFileIdle /\ InitTemplateIdle /\ InitXmlIdle

LoopStep ==
    \/ LoopExhausted /\ UNCHANGED <<rvars, svars, qvars, tvars, mvars, gvars, cvars, fvars, pvars, xvars>>
    \/ LoopSample /\ UNCHANGED <<rvars, svars, qvars, tvars, mvars, gvars, cvars, fvars, pvars, xvars>>
    \/ LoopCallback /\ UNCHANGED <<rvars, svars, qvars, tvars, mvars, gvars, cvars, fvars, pvars, xvars>>
    \/ LoopDecode /\ UNCHANGED <<rvars, svars, qvars, tvars, mvars, gvars, cvars, fvars, pvars, xvars>>

\* generation_loop from its entry on; it is sequential code whose calls return, so each step is taken once it can be
SpecLoop == InitLoopEntered /\ [][LoopStep]_vars /\ WF_vars(LoopStep)

InitNoRegistryFile == InitRuntime /\ InitStreamIdle /\ InitParserIdle /\ InitTextIdle /\ InitMarkdownIdle /\ InitRegistryIdle /\ InitContextIdle /\ InitLoopIdle /\ InitFile /\ InitTemplateIdle /\ InitXmlIdle

FileStep ==
    \/ \E p \in Procs : LoadStart(p) /\ UNCHANGED <<rvars, svars, qvars, tvars, mvars, gvars, cvars, lvars, pvars, xvars>>
    \/ \E p \in Procs : LoadLock(p) /\ UNCHANGED <<rvars, svars, qvars, tvars, mvars, gvars, cvars, lvars, pvars, xvars>>
    \/ \E p \in Procs : LoadRead(p) /\ UNCHANGED <<rvars, svars, qvars, tvars, mvars, gvars, cvars, lvars, pvars, xvars>>
    \/ \E p \in Procs : LoadUnlock(p) /\ UNCHANGED <<rvars, svars, qvars, tvars, mvars, gvars, cvars, lvars, pvars, xvars>>
    \/ \E p \in Procs : LoadFails(p) /\ UNCHANGED <<rvars, svars, qvars, tvars, mvars, gvars, cvars, lvars, pvars, xvars>>
    \/ \E p \in Procs, id \in ModelIds : FileAddModel(p, id) /\ UNCHANGED <<rvars, svars, qvars, tvars, mvars, gvars, cvars, lvars, pvars, xvars>>
    \/ \E p \in Procs : SaveLock(p) /\ UNCHANGED <<rvars, svars, qvars, tvars, mvars, gvars, cvars, lvars, pvars, xvars>>
    \/ \E p \in Procs : SaveWrite(p) /\ UNCHANGED <<rvars, svars, qvars, tvars, mvars, gvars, cvars, lvars, pvars, xvars>>
    \/ \E p \in Procs : SaveWriteRest(p) /\ UNCHANGED <<rvars, svars, qvars, tvars, mvars, gvars, cvars, lvars, pvars, xvars>>
    \/ \E p \in Procs : SavePersist(p) /\ UNCHANGED <<rvars, svars, qvars, tvars, mvars, gvars, cvars, lvars, pvars, xvars>>
    \/ \E p \in Procs : SaveUnlock(p) /\ UNCHANGED <<rvars, svars, qvars, tvars, mvars, gvars, cvars, lvars, pvars, xvars>>
    \/ \E p \in Procs : SaveFails(p) /\ UNCHANGED <<rvars, svars, qvars, tvars, mvars, gvars, cvars, lvars, pvars, xvars>>
    \/ \E p \in Procs : ProcessExits(p) /\ UNCHANGED <<rvars, svars, qvars, tvars, mvars, gvars, cvars, lvars, pvars, xvars>>

\* several processes loading and saving the one registry file
SpecFile == InitNoRegistryFile /\ [][FileStep]_vars

InitNativeEntered == InitRuntime /\ InitStreamIdle /\ InitParserIdle /\ InitTextIdle /\ InitMarkdownIdle /\ InitRegistryIdle /\ InitContextIdle /\ InitLoopIdle /\ InitFileIdle /\ InitTemplate /\ InitXmlIdle

TemplateStep ==
    \/ TemplateFull /\ UNCHANGED <<rvars, svars, qvars, tvars, mvars, gvars, cvars, lvars, fvars, xvars>>
    \/ TemplateCount /\ UNCHANGED <<rvars, svars, qvars, tvars, mvars, gvars, cvars, lvars, fvars, xvars>>
    \/ TemplateCompact /\ UNCHANGED <<rvars, svars, qvars, tvars, mvars, gvars, cvars, lvars, fvars, xvars>>
    \/ TemplateRetry /\ UNCHANGED <<rvars, svars, qvars, tvars, mvars, gvars, cvars, lvars, fvars, xvars>>
    \/ TemplateTokenize /\ UNCHANGED <<rvars, svars, qvars, tvars, mvars, gvars, cvars, lvars, fvars, xvars>>

\* generate_with_native_tools from its entry to the tokenisation of the chosen prompt
SpecTemplate == InitNativeEntered /\ [][TemplateStep]_vars

InitXmlText == InitRuntime /\ InitStreamIdle /\ InitParserIdle /\ InitTextIdle /\ InitMarkdownIdle /\ InitRegistryIdle /\ InitContextIdle /\ InitLoopIdle /\ InitFileIdle /\ InitTemplateIdle /\ InitXml

XmlStep ==
    \/ XmlSplit /\ UNCHANGED <<rvars, svars, qvars, tvars, mvars, gvars, cvars, lvars, fvars, pvars>>

\* split_content_and_xml_tool_calls applied to a text with <tool_call> blocks
SpecXml == InitXmlText /\ [][XmlStep]_vars

(***************************************************************************)
(* Claims about the runtime, checked under Spec.                           *)
(***************************************************************************)

\* C1: under every interleaving of get_or_init() calls and drops of strong
\* handles, at most one backend instance is live at any time, and
\* get_or_init never sees the backend library answer "already initialized"
\* (the unreachable!() arm is never taken).
C1_SingleBackendNeverAlreadyInitialized ==
    /\ Cardinality({g \in Gens : BackendLive(g)}) <= 1
    /\ \A p \in Providers : ppc[p] # "panic_already_initialized"

\* C2: whenever a runtime's backend has been torn down, every LoadedModel
\* loaded through that runtime has already been released, whatever order the
\* holders drop their runtime handles and slot handles in.
C2_WeightsReleasedBeforeBackend ==
    \A g \in Gens : rtPhase[g] = "freed" => \A m \in Models : ~slotLoaded[g][m]

\* a worker between blocking_lock() and the return of its closure
WorkerInGeneration(p) == wpc[p] \in {"w_generate", "w_finished"}

\* C8: generations on the same model slot never overlap, a slot is never
\* emptied while a generation on it is running, and the worker holds the
\* slot's lock from before the prompt is rendered until after the final
\* usage record or the error item has been sent.
C8_GenerationHoldsSlotLock ==
    \A p \in Providers :
        /\ (WorkerInGeneration(p) \/ wpc[p] = "w_not_loaded")
              => slotLock[wgen[p]][wmodel[p]] = WorkerId(p)
        /\ WorkerInGeneration(p) => slotLoaded[wgen[p]][wmodel[p]]
        /\ \A q \in Providers :
              (q # p /\ WorkerInGeneration(p) /\ WorkerInGeneration(q))
                 => <<wgen[p], wmodel[p]>> # <<wgen[q], wmodel[q]>>

\* C8 witness: a generation runs on a slot while another worker on the same
\* slot waits for the lock and a stream() call for another model waits to
\* evict that slot.
C8_Witness ==
    \E p, q \in Providers :
        /\ p # q
        /\ wpc[p] = "w_generate"
        /\ \/ (wpc[q] = "w_lock" /\ wgen[q] = wgen[p] /\ wmodel[q] = wmodel[p])
           \/ (ppc[q] = "s_evict" /\ pgen[q] = wgen[p] /\ wmodel[p] \in sothers[q])

\* C9: at every moment at most one model slot of a runtime holds loaded
\* weights; in particular, when stream() has finished loading its model,
\* every other slot of the cache is empty.
C9_AtMostOneSlotLoaded ==
    \A g \in Gens : Cardinality({m \in Models : slotLoaded[g][m]}) <= 1

\* C9 witness: stream() of p has just loaded its model, and the worker of
\* another provider, spawned when its own model was resident, now waits on a
\* slot that p's call emptied.
C9_Witness ==
    \E p, q \in Providers :
        /\ p # q
        /\ ppc[p] = "s_spawn"
        /\ slotLoaded[pgen[p]][pmodel[p]]
        /\ wpc[q] = "w_lock"
        /\ wgen[q] = pgen[p]
        /\ wmodel[q] # pmodel[p]
        /\ ~slotLoaded[wgen[q]][wmodel[q]]

(***************************************************************************)
(* Claims about one stream, checked under SpecStream and SpecStreamFair.   *)
(***************************************************************************)
\* the generation has returned Ok(())
ReturnedOk == gpc = "returned" /\ gerr = ""

\* the worker failed: the slot was empty or the generation returned Err
ReturnedErr == gpc = "returned" /\ gerr # ""

\* the loop of the native path has ended
NativeLoopEnded == ~use_emulator /\ (gpc = "post_send" \/ ReturnedOk)

\* C3: on the native path no byte at or after the start of the tool-call
\* block that the final extraction turns into tool requests (the trailing
\* JSON object with tool_calls, or the first <tool_call> tag) is ever sent
\* as assistant text: streamed_len, which only grows during the loop, is at
\* the end of the loop at most the byte offset of that block in the final
\* generated text.
C3_NoToolBlockByteStreamed ==
    (NativeLoopEnded /\ FinalExtraction(generated_text).calls # <<>>)
        => streamed_len <= FinalExtraction(generated_text).start

\* C4: within a stream in which every send succeeded and the generation
\* returned Ok, the channel carries text chunks, then tool requests, then
\* exactly one usage record as the last item; at no moment does a text
\* chunk follow a tool request.
C4_TextThenToolsThenUsage ==
    /\ \A i, j \in 1..Len(chan) :
          (i < j /\ chan[i].kind = "tool") => chan[j].kind # "text"
    /\ \A i \in 1..Len(chan) : chan[i].kind = "usage" => i = Len(chan)
    /\ (ReturnedOk /\ ~failedSend) =>
          (Len(chan) >= 1 /\ chan[Len(chan)].kind = "usage")

\* a tool request has been sent on the channel
ToolSent == \E i \in 1..Len(chan) : chan[i].kind = "tool"

\* C5: on the emulator path, once a tool-request message (ShellCommand or
\* ExecuteCode) has been sent on the channel, no step samples or decodes a
\* further token.
C5_NoTokenAfterToolRequest ==
    [][(use_emulator /\ ToolSent)
          => (nSampled' = nSampled /\ nDecoded' = nDecoded)]_vars

C5_Witness ==
    /\ use_emulator /\ ToolSent /\ ReturnedOk
    /\ nSampled >= 2 /\ nSampled < MaxOutput

\* C6: a failure of the worker (empty slot, template, tokenisation, context
\* validation, prefill, piece or decode error) is logged once and sent as
\* one error item; an error item on the channel is its last item, put
\* there when the worker is done, so that no message and no usage follows;
\* it is on the channel unless the consumer had dropped the stream; and
\* the consumer stream has ended once it has yielded the error.
C6_SingleErrorIsLast ==
    /\ logErrors = errSends
    /\ errSends = (IF ReturnedErr THEN 1 ELSE 0)
    /\ \A i \in 1..Len(chan) :
          chan[i].kind = "error" => (i = Len(chan) /\ ReturnedErr)
    /\ (ReturnedErr /\ ~failedSend) =>
          (Len(chan) >= 1 /\ chan[Len(chan)] = ErrorItem(gerr))
    /\ (rcvd >= 1 /\ chan[rcvd].kind = "error") => rxState = "ended"

C6_Witness ==
    /\ ReturnedErr
    /\ Len(chan) >= 2
    /\ chan[1].kind = "text"
    /\ chan[Len(chan)].kind = "error"
    /\ rcvd = Len(chan)
    /\ rxState = "ended"

\* the worker has terminated and released the slot lock
WorkerDone == wpc[W] = "w_drop" /\ slotLock[wgen[W]][wmodel[W]] = 0

\* C7: after the consumer has dropped the stream every send fails (the
\* channel accepts nothing more), no token is sampled after a failed
\* send, and the worker eventually terminates and releases the slot lock.
C7_DropStopsWorker ==
    /\ [][/\ rxState = "dropped" => chan' = chan
          /\ failedSend => nSampled' = nSampled]_vars
    /\ (rxState = "dropped") ~> WorkerDone

C7_Witness ==
    /\ rxState = "dropped"
    /\ failedSend
    /\ nSampled >= 1 /\ nSampled < MaxOutput
    /\ WorkerDone

(***************************************************************************)
(* Claims about the emulator parser, checked under SpecParser.             *)
(***************************************************************************)
\* an action list with each run of adjacent Text actions joined into one
RECURSIVE JoinText(_)
JoinText(as) ==
    IF Len(as) < 2 THEN as
    ELSE IF as[1].kind = "Text" /\ as[2].kind = "Text"
    THEN JoinText(<<Text(as[1].arg \o as[2].arg)>> \o SubSeq(as, 3, Len(as)))
    ELSE <<as[1]>> \o JoinText(Tail(as))

\* C10: the parser's result does not depend on chunk boundaries: however
\* the text is cut into chunks, process_chunk on each chunk and then flush
\* yield the actions that the text as one chunk yields (so any two ways of
\* cutting it agree): the same kinds in the same order, the same commands
\* and code, and the same text, adjacent Text actions counted as one text.
C10_ChunkingIndependent ==
    (flushed /\ fed = Len(input) /\ input # <<>>)
        => JoinText(actions) = JoinText(parse_all(input, code_mode))

\* the tool requests on the channel
ToolRequestsSent == { i \in 1..Len(chan) : chan[i].kind = "tool" }

\* C31: an emulator-path stream carries at most one tool-request message:
\* after the first tool request has been sent, neither the rest of the same
\* token piece nor the end-of-generation flush puts another tool request on
\* the channel.
C31_AtMostOneToolRequest ==
    use_emulator => Cardinality(ToolRequestsSent) <= 1

\* the text chunks of the first n items of the channel, concatenated
RECURSIVE TextSent(_)
TextSent(n) ==
    IF n = 0 THEN <<>>
    ELSE TextSent(n - 1) \o (IF chan[n].kind = "text" THEN chan[n].body ELSE <<>>)

\* C32: on the native path no byte of the generated text is emitted as
\* assistant text more than once: the concatenation of all text chunks of a
\* stream (streamed chunks, remaining content and the full-text fallback
\* together) is a prefix of the generated text.
C32_TextChunksArePrefix ==
    ~use_emulator => StartsWith(generated_text, TextSent(Len(chan)))

\* the text has a `$` as its very first character or right after a newline
DollarAtLineStart(text) ==
    \E i \in 1..Len(text) : text[i] = "$" /\ (i = 1 \/ text[i - 1] = NL)

\* the text of the Text actions, in order
TextOfActions(as) ==
    Concat([i \in 1..Len(SelectSeq(as, LAMBDA a : a.kind = "Text")) |->
                SelectSeq(as, LAMBDA a : a.kind = "Text")[i].arg])

\* C11: for every chunking, a ShellCommand comes only from a `$` that is the
\* first character of the output or immediately follows a newline: a text
\* whose `$` are all elsewhere yields no ShellCommand, and, when it holds no
\* execute fence either, only Text actions whose concatenation is the text
\* unchanged.
C11_DollarOnlyAtLineStart ==
    (flushed /\ fed = Len(input) /\ Find(input, <<"$">>) >= 0
        /\ ~DollarAtLineStart(input))
        => /\ \A i \in 1..Len(actions) : actions[i].kind # "ShellCommand"
           /\ Find(input, FENCE_EXECUTE) < 0 => TextOfActions(actions) = input

\* C12: safe_stream_end is monotonic under extension: for the text t before
\* a piece c and the text t + c after it,
\* safe_stream_end(t + c) >= safe_stream_end(t) - |c|, and every byte
\* position classified safe for t is still classified safe for t + c.
C12_SafeEndMonotonic ==
    /\ safe_stream_end(text_after)
          >= safe_stream_end(text_before) - Len(piece_added)
    /\ \A pos \in 0..Len(text_before) :
          pos < safe_stream_end(text_before)
              => pos < safe_stream_end(text_after)

\* a text that held bytes back was extended and still holds bytes back
C12_Witness ==
    /\ Len(piece_added) > 0
    /\ 0 < safe_stream_end(text_before)
    /\ safe_stream_end(text_before) < Len(text_before)
    /\ safe_stream_end(text_after) < Len(text_after)
    /\ safe_stream_end(text_after) > safe_stream_end(text_before)

\* the text ends, up to trailing whitespace, in a well-formed JSON object
\* that has a "tool_calls" array
EndsInToolCallObject(text) ==
    With(TrimEnd(text), LAMBDA trimmed :
      \E s \in 0..(Len(trimmed) - 1) :
         /\ trimmed[s + 1] = "{"
         /\ With(JsonFromStr(Slice(trimmed, s, Len(trimmed))), LAMBDA parsed :
              parsed.ok /\ JsonGet(parsed.val, KEY_TOOL_CALLS).k = "a"))

\* C13: for every generated text that ends (up to trailing whitespace) in a
\* well-formed JSON object with a tool_calls array,
\* split_content_and_tool_calls returns (prefix, Some(json)) such that
\* prefix + json is the text with trailing whitespace trimmed and
\* safe_stream_end(prefix) = |prefix|.
C13_SplitRebuildsText ==
    (split_done /\ EndsInToolCallObject(text_after))
        => /\ split_result.found
           /\ split_result.content \o split_result.json = TrimEnd(text_after)
           /\ safe_stream_end(split_result.content) = Len(split_result.content)

\* C14: for every sequence of MarkdownBuffer::push calls followed by flush,
\* at every moment (everything returned so far) + (held buffer) =
\* (everything pushed so far), and after flush the concatenation of all
\* returned strings is the concatenation of all pushed chunks.
C14_NoByteLostOrDuplicated ==
    /\ Concat(md_results) \o md_remaining \o md_buffer
          = Slice(md_input, 0, md_fed)
    /\ md_flushed => Concat(md_results) \o md_remaining = md_input

\* a stream in which push returned twice, held text back and flush
\* returned the rest
C14_Witness ==
    /\ md_flushed
    /\ md_input # <<>>
    /\ Len(md_results) >= 2
    /\ md_remaining # <<>>

\* the number of bytes the first k push results hold together
ReturnedLen(k) == Len(Concat(SubSeq(md_results, 1, k)))

\* C15: MarkdownBuffer::push never makes a fenced code block partially
\* visible: for any text before it (including blank lines), any fence
\* (backtick or tilde, length at least 3, with or without info string), any
\* body lines and any chunking, no push result ends inside the block (the
\* newline that ends the closing fence line left aside), so the text
\* returned never holds an opening fence line without its closing fence and
\* the block is returned in one piece.
C15_FencedBlockInOnePiece ==
    \A before \in MdBefore, block \in MdFenced, after \in MdAfter :
       (md_input = before \o block \o after
            /\ (before = <<>> \/ before[Len(before)] = NL))
         => \A k \in 1..Len(md_results) :
               \/ ReturnedLen(k) <= Len(before)
               \/ ReturnedLen(k) >= Len(before) + Len(block) - 1

\* C16: MarkdownBuffer::push never returns text that ends inside an open
\* inline construct (bold, italic, strikethrough, inline code, link text,
\* link URL, image alt): once the opener has been pushed the text before
\* it has been returned, and no push result ends between the opener and
\* the end of the closer.
C16_InlineConstructHeld ==
    \A before \in MdBefore, construct \in MdInline, after \in MdAfter :
       md_input = before \o construct \o after
         => /\ md_fed > Len(before)
                  => ReturnedLen(Len(md_results)) >= Len(before)
            /\ \A k \in 1..Len(md_results) :
                  \/ ReturnedLen(k) <= Len(before)
                  \/ ReturnedLen(k) >= Len(before) + Len(construct)

\* C17: starting from an empty registry, after any sequence of add_model,
\* remove_model, update_model_settings and sync_with_featured calls (and of
\* the routes that make them), no two entries of the registry have the
\* same id.
C17_IdsUnique ==
    \A i, j \in 1..Len(reg_models) :
        reg_models[i].id = reg_models[j].id => i = j

\* two entries are registered and the last call was an add_model that
\* found its id already there
C17_Witness ==
    /\ Len(reg_models) = 2
    /\ reg_call.op = "add_model"
    /\ reg_models[1].id = reg_call.id

\* C18: add_model is an upsert by id: after add_model(e) succeeds,
\* get_model(e.id) returns e, has_model(e.id) is true, an earlier entry
\* with that id has been replaced (one entry has the id), and every entry
\* with a different id is unchanged.
C18_AddModelUpserts ==
    [][\A e \in Entries :
          (AddModel(e) /\ reg_call'.ok)
            => /\ get_model(reg_models', e.id) = <<e>>
               /\ has_model(reg_models', e.id)
               /\ Len(SelectSeq(reg_models', LAMBDA m : m.id = e.id)) = 1
               /\ \A id \in ModelIds \ {e.id} :
                     get_model(reg_models', id) = get_model(reg_models, id)]_vars

\* a successful add_model has replaced, in place, the first of two entries
\* by an entry with other settings
C18_Witness ==
    /\ reg_call.op = "add_model"
    /\ reg_call.ok
    /\ Len(reg_models) = 2
    /\ reg_models[1] = reg_call.entries[1]
    /\ reg_models[1].settings = "edited"

\* C19: after sync_with_featured(entries), every entry passed in entries
\* is present in the registry, also when it is neither downloaded nor
\* downloading.
C19_FeaturedAlwaysPresent ==
    reg_call.op = "sync_with_featured"
        => \A id \in reg_call.passed : has_model(reg_models, id)

\* a sync has been passed an entry that is neither downloaded nor
\* downloading, and the registry holds it
C19_Witness ==
    /\ reg_call.op = "sync_with_featured"
    /\ \E i \in 1..Len(reg_models) :
          /\ reg_models[i].id \in reg_call.passed
          /\ ~is_downloaded(reg_models[i])
          /\ ~is_downloading(reg_models[i])

\* the entry is not featured, its derived download status is not
\* Downloading and its file is not on disk
Orphan(m) ==
    /\ ~is_featured_model(m.id)
    /\ download_status(m) # "Downloading"
    /\ m.local_path \notin reg_disk

\* C20: sync_with_featured removes an entry if and only if the entry is not
\* featured, is not currently downloading (its derived download status is
\* not Downloading) and its file is not on disk; no other operation except
\* an explicit delete removes an entry.
C20_SyncRemovesExactlyOrphans ==
    /\ reg_call.op = "sync_with_featured"
          => /\ \A m \in reg_call.dropped : Orphan(m)
             /\ \A i \in 1..Len(reg_models) : ~Orphan(reg_models[i])
    /\ reg_call.op \notin {"sync_with_featured", "remove_model", "delete_local_model"}
          => reg_call.dropped = {}

\* C21: delete_local_model of a featured model removes only its file: the
\* registry holds the same entries, with their settings, afterwards;
\* delete_local_model of a model that is not featured also removes its
\* entry (and no other entry).
C21_DeleteKeepsFeaturedEntry ==
    [][\A id \in ModelIds :
          (DeleteLocalModel(id) /\ reg_call'.ok)
            => /\ get_model(reg_models, id)[1].local_path \notin reg_disk'
               /\ IF is_featured_model(id)
                  THEN reg_models' = reg_models
                  ELSE /\ ~has_model(reg_models', id)
                       /\ \A other \in ModelIds \ {id} :
                             get_model(reg_models', other) = get_model(reg_models, other)]_vars

\* delete_local_model has removed the file of a featured model whose
\* settings had been edited, and the entry is still there
C21_Witness ==
    /\ reg_call.op = "delete_local_model"
    /\ reg_call.ok
    /\ is_featured_model(reg_call.id)
    /\ has_model(reg_models, reg_call.id)
    /\ get_model(reg_models, reg_call.id)[1].settings = "edited"
    /\ get_model(reg_models, reg_call.id)[1].local_path \notin reg_disk
    /\ \E m \in ModelIds : ~is_featured_model(m) /\ has_model(reg_models, m)

\* the cap of the context size as section 6 states it: the context limit
\* (the training size when it is zero), clamped by the memory estimate
LimitOrTrainCappedByMemory ==
    LET limit == IF cx_limit > 0 THEN cx_limit ELSE cx_train
    IN  IF cx_mem = None THEN limit ELSE Min(limit, cx_mem[1])

\* C22 as stated: for all prompt token counts p, all settings s (with or
\* without a user-set context_size), ctx_limit L, n_ctx_train T and memory
\* bound M, effective_context_size(p, s, L, T, M) is at most
\* min(L if non-zero else T, M) and at least min(p + 512, that cap).
C22_EffectiveWithinLimitAndMemory ==
    cx_validated =>
        /\ cx_effective <= LimitOrTrainCappedByMemory
        /\ cx_effective >= Min(cx_tokens + 512, LimitOrTrainCappedByMemory)

\* C22 amended: effective_context_size(p, s, L, T, M) is at most cap and at
\* least min(p + 512, cap), where cap is the user-set context_size when
\* the settings have one and min(L if non-zero else T, M) otherwise.
C22_EffectiveWithinCap ==
    cx_validated =>
        \E cap \in {IF cx_size # None THEN cx_size[1] ELSE LimitOrTrainCappedByMemory} :
            /\ cx_effective <= cap
            /\ cx_effective >= Min(cx_tokens + 512, cap)

\* a context size was computed, from a user-set context_size, that is
\* above the context limit and above the memory estimate
C22_Witness ==
    /\ cx_validated
    /\ cx_size # None
    /\ cx_mem # None
    /\ cx_effective > cx_limit
    /\ cx_limit > 0
    /\ cx_effective > cx_mem[1]

\* C23: on both tool paths, when the prompt token count exceeds the
\* memory-derived maximum context, validate_and_compute_context fails with
\* ContextLengthExceeded, and no inference context is ever created and no
\* prompt token decoded.
C23_PreflightBeforeAllocation ==
    /\ []((cx_mem # None /\ cx_tokens > cx_mem[1])
            => /\ cx_n_ctx = 0
               /\ cx_decoded = 0
               /\ cx_pc \notin {"create", "prefill", "ready"}
               /\ cx_validated => cx_pc = "failed" /\ cx_err = "ContextLengthExceeded")
    /\ [][(cx_mem # None /\ cx_tokens > cx_mem[1] /\ CtxValidate)
            => cx_pc' = "failed" /\ cx_err' = "ContextLengthExceeded"]_vars

\* the emulated path has failed the pre-flight check with a prompt that a
\* user-set context_size would have admitted
C23_Witness ==
    /\ cx_path = "generate_with_emulated_tools"
    /\ cx_validated
    /\ cx_err = "ContextLengthExceeded"
    /\ cx_size # None
    /\ cx_tokens < cx_size[1]

\* C24: when the prompt token count exceeds the user-set context_size, the
\* call fails with ContextLengthExceeded: once validate_and_compute_context
\* has returned, the call has failed with that error kind.
C24_UserContextSizeExceeded ==
    (cx_size # None /\ cx_tokens > cx_size[1] /\ cx_validated)
        => cx_pc = "failed" /\ cx_err = "ContextLengthExceeded"

\* C25: stream() for a model id that is absent from the registry, or whose
\* weight file is not present on disk, fails with the NotFound error kind.
C25_StreamUnknownModelNotFound ==
    (/\ reg_call.op = "stream"
     /\ \/ ~has_model(reg_models, reg_call.id)
        \/ ~is_downloaded(get_model(reg_models, reg_call.id)[1]))
        => ~reg_call.ok /\ reg_call.err = "NotFound"

\* C26: stream() takes the emulator path if and only if the tool list is
\* non-empty and native_tool_calling is false; only then is the caller's
\* system prompt replaced by the emulator prompt followed by the tool
\* description block; otherwise the native path runs with the caller's
\* system prompt unchanged.
C26_EmulatorIffToolsAndNotNative ==
    /\ cx_path = "generate_with_emulated_tools"
          => cx_tools # {} /\ ~cx_native
    /\ cx_path = "generate_with_native_tools"
          => ~(cx_tools # {} /\ ~cx_native)
    /\ cx_pc \in {"prompt", "validate", "create", "prefill", "ready"}
          => IF cx_tools # {} /\ ~cx_native
             THEN /\ Len(cx_system) = 2
                  /\ cx_system[1] = "load_tiny_model_prompt"
                  /\ cx_system[2] = build_emulator_tool_description(cx_tools,
                                        CODE_EXECUTION_TOOL \in cx_tools)
                  /\ cx_path \in {"none", "generate_with_emulated_tools"}
             ELSE /\ cx_system = <<"system">>
                  /\ cx_path \in {"none", "generate_with_native_tools"}

\* a call without tools on a model without native tool calling has run the
\* native path
C26_Witness ==
    /\ cx_tools = {}
    /\ ~cx_native
    /\ cx_path = "generate_with_native_tools"
    /\ cx_system = <<"system">>

\* C27: under any interleaving of concurrent stream() calls, no call waits
\* in its load-and-evict step for a slot lock held by a call that is itself
\* waiting there for a slot lock the first call holds (no deadlock).
C27_NoCircularWait ==
    ~ \E p, q \in Providers :
          /\ p # q
          /\ ppc[p] = "s_evict"
          /\ ppc[q] = "s_evict"
          /\ \E m \in sothers[p] : slotLock[pgen[p]][m] = q
          /\ \E m \in sothers[q] : slotLock[pgen[q]][m] = p

\* C28: after stream() has ensured that the target slot is loaded and has
\* released the slot lock, the spawned worker finds the slot loaded when
\* it acquires the lock: no worker reaches the "Model not loaded" error,
\* also when another stream() call evicts in between.
C28_WorkerFindsModelLoaded ==
    \A p \in Providers : wpc[p] # "w_not_loaded"

\* the actions of one kind
ActionsOfKind(as, kind) == SelectSeq(as, LAMBDA a : a.kind = kind)

\* C29: a trigger split across chunk boundaries is still detected: however
\* an output text, newline, `$ cmd`, newline is cut into chunks, the
\* parser yields exactly one ShellCommand, carrying the trimmed command,
\* and no part of the `$ cmd` line as Text; in code mode an execute fence
\* with its closing fence yields exactly one ExecuteCode with the block's
\* code, up to surrounding whitespace.
C29_SplitTriggerDetected ==
    (fed = Len(input) /\ input # <<>>) =>
        /\ \A text \in TriggerTexts, cmd \in TriggerCommands :
              input = ShellOutput(text, cmd)
                => /\ ActionsOfKind(actions, "ShellCommand") = <<ShellCommand(Trim(cmd))>>
                   /\ ActionsOfKind(actions, "ExecuteCode") = <<>>
                   /\ StartsWith(text \o <<NL>>, TextOfActions(actions))
        /\ \A text \in TriggerTexts, code \in TriggerCodes :
              (code_mode /\ input = ExecuteOutput(text, code))
                => /\ Len(ActionsOfKind(actions, "ExecuteCode")) = 1
                   /\ Trim(ActionsOfKind(actions, "ExecuteCode")[1].arg) = Trim(code)
                   /\ ActionsOfKind(actions, "ShellCommand") = <<>>
                   /\ StartsWith(text \o <<NL>>, TrimEnd(TextOfActions(actions)))

\* an output came in as many chunks as can be, its text was emitted in two
\* parts, the second ending with the newline before the `$`, and the
\* command was found
C29_Witness ==
    /\ flushed
    /\ ~code_mode
    /\ chunks = ParserMaxChunks
    /\ Len(actions) = 3
    /\ actions[1].kind = "Text"
    /\ actions[2].kind = "Text"
    /\ actions[2].arg[Len(actions[2].arg)] = NL
    /\ actions[3] = ShellCommand(<<"l", "s", " ", "-", "l">>)

\* C30: at the end of generation flush() emits whatever is pending: an
\* unterminated `$ ...` line as a ShellCommand, an unclosed execute block
\* as ExecuteCode with its accumulated code, pending normal text as Text;
\* afterwards the buffer is empty and a second flush emits nothing.
C30_FlushEmitsPending ==
    [][ParserFlush =>
          \E emitted \in {SubSeq(actions', Len(actions) + 1, Len(actions'))} :
             /\ (parser.state = "InCommand" /\ Trim(Tail(Trim(parser.buffer))) # <<>>)
                   => emitted = <<ShellCommand(Trim(Tail(Trim(parser.buffer))))>>
             /\ (parser.state = "InExecuteBlock" /\ Trim(parser.buffer) # <<>>)
                   => /\ Len(emitted) = 1
                      /\ emitted[1].kind = "ExecuteCode"
                      /\ Trim(emitted[1].arg) = Trim(parser.buffer)
             /\ (parser.state = "Normal" /\ parser.buffer # <<>>)
                   => emitted = <<Text(parser.buffer)>>
             /\ parser'.buffer = <<>>
             /\ flush(parser').results = <<>>]_vars

\* flush has emitted the code of an execute block that was never closed
C30_Witness ==
    /\ flushed
    /\ code_mode
    /\ Find(input, FENCE_CLOSE) < 0
    /\ actions # <<>>
    /\ actions[Len(actions)].kind = "ExecuteCode"
    /\ parser.buffer = <<>>
(***************************************************************************)
(* Claims about generation_loop, checked under SpecLoop.                   *)
(***************************************************************************)
\* generation_loop has returned Ok(output_token_count) or an error
LoopOver == gl_pc \in {"returned", "failed"}

\* C33: generation_loop always terminates, and the number of tokens it
\* generates is at most effective_ctx - prompt_tokens (zero when the prompt
\* already fills the context) and at most max_output_tokens when that
\* setting is present; it stops earlier on an end-of-generation token or
\* when the callback returns Stop.
C33_LoopTerminatesWithinBudget ==
    /\ <>LoopOver
    /\ [](/\ gl_prompt_token_count >= gl_effective_ctx
             => gl_output_token_count = 0
          /\ gl_prompt_token_count < gl_effective_ctx
             => gl_output_token_count <= gl_effective_ctx - gl_prompt_token_count
          /\ gl_max_output_tokens # None
             => gl_output_token_count <= gl_max_output_tokens[1]
          /\ gl_end \in {"eog", "stop"} => gl_pc = "returned")

\* the loop ran until the max_output_tokens setting, smaller than the room
\* left in the context, was used up
C33_Witness ==
    /\ gl_pc = "returned"
    /\ gl_end = "exhausted"
    /\ gl_max_output_tokens # None
    /\ gl_output_token_count = gl_max_output_tokens[1]
    /\ gl_output_token_count > 0
    /\ gl_output_token_count < gl_effective_ctx - gl_prompt_token_count

(***************************************************************************)
(* Claims about load-and-evict, checked under Spec.                        *)
(***************************************************************************)
\* C34: if loading the requested model fails (file not downloaded, or the
\* native load returns an error), the models that were resident before the
\* stream() call are still resident afterwards: the eviction of other slots
\* takes effect only when the load succeeds.  Whenever a stream() call
\* returns the load error, every slot it had found loaded and emptied is
\* loaded.
C34_FailedLoadEvictsNothing ==
    [][\A p \in Providers :
          StreamLoadErr(p) =>
              \A m \in sevicted[p] : slotLoaded'[pgen[p]][m]]_vars

(***************************************************************************)
(* Claims about failed saves of the registry, checked under SpecRegistry.  *)
(***************************************************************************)
\* the step is a registry call whose save failed
SaveFailedIn(op) == reg_call'.op = op /\ reg_failures' = reg_failures + 1

\* C35: a save failure inside sync_with_featured is not reported to the
\* caller and the in-memory registry keeps the synced entries; a save
\* failure inside add_model, remove_model or update_model_settings is
\* returned to the caller as an error.
C35_SyncSwallowsSaveFailure ==
    [][/\ SaveFailedIn("sync_with_featured")
          => /\ reg_call'.ok
             /\ \E featured_entries \in FeaturedLists(MaxFeaturedPassed) :
                   /\ SyncWithFeatured(featured_entries)
                   /\ reg_models' = sync_with_featured(reg_models, featured_entries).models
             /\ \A id \in reg_call'.passed : has_model(reg_models', id)
       /\ \A op \in {"add_model", "remove_model", "update_model_settings"} :
             SaveFailedIn(op) => ~reg_call'.ok]_vars

\* the save of a sync_with_featured call failed: the entry it dropped is
\* still in the file, the entry it pushed is in memory only
C35_Witness ==
    /\ reg_call.op = "sync_with_featured"
    /\ reg_call.ok
    /\ reg_failures = MaxSaveFailures
    /\ \E m \in reg_call.dropped : has_model(reg_file, m.id)
    /\ \E id \in reg_call.passed : has_model(reg_models, id) /\ ~has_model(reg_file, id)

\* C36: when add_model, remove_model or update_model_settings returns an
\* error (unknown id, or the save failed), the in-memory registry is the
\* same as before the call, so that after an error return the in-memory
\* registry and the persisted file still agree.
C36_ErrorLeavesMemoryUnchanged ==
    [][/\ \A e \in Entries :
             (AddModel(e) /\ ~reg_call'.ok) => reg_models' = reg_models
       /\ \A id \in ModelIds :
             (RemoveModel(id) /\ ~reg_call'.ok) => reg_models' = reg_models
       /\ \A id \in ModelIds, settings \in SettingsValues :
             (UpdateModelSettings(id, settings) /\ ~reg_call'.ok)
                => reg_models' = reg_models]_vars

(***************************************************************************)
(* Claims about several processes on one registry file, checked under      *)
(* SpecFile.                                                               *)
(***************************************************************************)
\* C37: with several OS processes using the same registry file, a load
\* that runs concurrently with a save in another process returns either
\* the complete registry from before that save or the complete registry
\* written by it, never a partially written or interleaved file; two
\* concurrent saves leave the file equal to one of the two registries.
C37_LoadSeesWholeRegistry ==
    /\ [](/\ fs_file.complete
          /\ \A p \in Procs : fs_result[p] # "parse_error"
          /\ fs_file.exists
                => \E p \in Procs : fs_saved[p] = <<fs_file.models>>)
    /\ [][\A p \in Procs :
             LoadUnlock(p) => /\ fs_result'[p] = "registry"
                              /\ FileOf(fs_mem'[p], TRUE) \in fs_seen[p]]_vars

\* a process has read registry.json in a load() during which a save of
\* another process replaced the file
C37_Witness ==
    \E p \in Procs :
        /\ fs_pc[p] = "l_unlock"
        /\ Cardinality(fs_seen[p]) >= 2
        /\ fs_contents[p] = fs_file
        /\ \E q \in Procs \ {p} : fs_saved[q] = <<fs_file.models>>

\* C38: with two processes sharing the registry file, an entry that one
\* process added with add_model (and that nobody deleted) is still in the
\* file after any later registry mutation saved by the other process: no
\* update is lost between processes.
C38_NoLostUpdate ==
    \A id \in fs_added : id \in fs_file.models

(***************************************************************************)
(* Claims about the choice of the prompt, checked under SpecTemplate.      *)
(***************************************************************************)
\* the template has been chosen, or the rendering has failed
TemplateSettled == tp_pc \in {"tokenize", "validate", "failed"}

\* C39: when rendering the chat template with the full tool catalog fails,
\* rendering is retried once with the compact catalog and an error is
\* surfaced only if that retry fails too; when the full render succeeds but
\* its token count exceeds cap - 512, the compact render is used if it
\* succeeds and the full render is kept otherwise.
C39_CompactRetry ==
    TemplateSettled =>
        /\ ~tp_full.ok
              => /\ tp_renders = 2
                 /\ IF tp_compact.ok
                    THEN tp_result = "compact" /\ tp_err # "Failed to apply chat template"
                    ELSE tp_err = "Failed to apply chat template"
        /\ tp_err = "Failed to apply chat template"
              => ~tp_full.ok /\ ~tp_compact.ok
        /\ (tp_full.ok /\ tp_full.tokenizes /\ tp_full.tokens > tp_cap - 512)
              => /\ tp_result = (IF tp_compact.ok THEN "compact" ELSE "full")
                 /\ tp_renders = 2

\* the full render was over the budget, the compact render failed, and the
\* full render was kept and tokenised
C39_Witness ==
    /\ tp_pc = "validate"
    /\ tp_full.ok
    /\ tp_full.tokens > tp_cap - 512
    /\ tp_cap >= 512
    /\ ~tp_compact.ok
    /\ tp_result = "full"

(***************************************************************************)
(* Claims about the XML tool calls, checked under SpecXml.                 *)
(***************************************************************************)
\* the calls the blocks of the text are expected to give, in order
ExpectedCalls ==
    LET yielding == SelectSeq(xml_shapes, LAMBDA s : s.format # "none")
    IN  [i \in 1..Len(yielding) |-> CallOf(yielding[i])]

\* C40: split_content_and_xml_tool_calls returns the calls of all
\* <tool_call> blocks in order of appearance, in either format
\* (function/parameter tags or GLM-style name with arg_key/arg_value pairs,
\* including a zero-argument call and an unclosed final block), together
\* with the text before the first <tool_call> with trailing whitespace
\* removed; it returns None exactly when no block yields a call.
C40_AllXmlCallsInOrder ==
    xml_done =>
        /\ xml_split.found <=> ExpectedCalls # <<>>
        /\ xml_split.found
              => /\ xml_split.calls = ExpectedCalls
                 /\ xml_split.content = TrimEnd(xml_content)

\* a text with content, a function-format block and an unclosed GLM-style
\* block without arguments has been split into its two calls
C40_Witness ==
    /\ xml_done
    /\ xml_split.found
    /\ ~xml_closed
    /\ xml_content # TrimEnd(xml_content)
    /\ Len(xml_split.calls) = 2
    /\ xml_shapes[1].format = "function"
    /\ xml_shapes[2].format = "glm"
    /\ xml_split.calls[2].args = {}
=============================================================================
